---- MODULE Spec2Model ----
(***************************************************************************)
(* A model of go-torc: the control-port session (Controller), its reply    *)
(* parser goroutine, the outbound line normalisation and the               *)
(* authentication negotiation.  Lines and wire bytes are TLA+ strings;     *)
(* positions are 1-based where Go's are 0-based.                           *)
(***************************************************************************)
EXTENDS Integers, Sequences, FiniteSets, TLC

\* ------------------------------------------------------------------------
\* String helpers: the parts of Go's strings and strconv packages the code
\* uses.
\* ------------------------------------------------------------------------

\* s[i-1] of Go as a one-character string ("" when out of range).
At(s, i) == IF 1 <= i /\ i <= Len(s) THEN SubSeq(s, i, i) ELSE ""

\* strings.HasSuffix
HasSuffix(s, suf) ==
    /\ Len(s) >= Len(suf)
    /\ SubSeq(s, Len(s) - Len(suf) + 1, Len(s)) = suf

\* strings.HasPrefix
HasPrefix(s, pre) ==
    /\ Len(s) >= Len(pre)
    /\ SubSeq(s, 1, Len(pre)) = pre

\* strings.TrimSuffix
TrimSuffix(s, suf) ==
    IF HasSuffix(s, suf) THEN SubSeq(s, 1, Len(s) - Len(suf)) ELSE s

\* strings.TrimPrefix
TrimPrefix(s, pre) ==
    IF HasPrefix(s, pre) THEN SubSeq(s, Len(pre) + 1, Len(s)) ELSE s

\* strings.Index, 1-based; 0 when sep does not occur in s.
Index(s, sep) ==
    LET hits == {i \in 1..(Len(s) - Len(sep) + 1) :
                    SubSeq(s, i, i + Len(sep) - 1) = sep}
    IN  IF hits = {} THEN 0
        ELSE CHOOSE i \in hits : \A j \in hits : i <= j

\* strings.SplitN(s, sep, 2)
SplitN2(s, sep) ==
    LET i == Index(s, sep)
    IN  IF i = 0 THEN <<s>>
        ELSE <<SubSeq(s, 1, i - 1), SubSeq(s, i + Len(sep), Len(s))>>

\* strings.SplitN(s, sep, -1)
RECURSIVE SplitAll(_, _)
SplitAll(s, sep) ==
    LET i == Index(s, sep)
    IN  IF i = 0 THEN <<s>>
        ELSE <<SubSeq(s, 1, i - 1)>>
                 \o SplitAll(SubSeq(s, i + Len(sep), Len(s)), sep)

\* strings.Replace(s, old, new, -1) for a non-empty old.
RECURSIVE ReplaceAll(_, _, _)
ReplaceAll(s, old, new) ==
    LET i == Index(s, old)
    IN  IF i = 0 THEN s
        ELSE SubSeq(s, 1, i - 1) \o new
                 \o ReplaceAll(SubSeq(s, i + Len(old), Len(s)), old, new)

Digits == "0123456789"

IsDigit(c) == Len(c) = 1 /\ Index(Digits, c) # 0

DigitVal(c) == Index(Digits, c) - 1

RECURSIVE DecimalVal(_)
DecimalVal(s) ==
    IF Len(s) = 0 THEN 0
    ELSE 10 * DecimalVal(SubSeq(s, 1, Len(s) - 1)) + DigitVal(At(s, Len(s)))

\* strconv.Atoi: an optional sign, then one or more decimal digits.
\* ok is FALSE where Atoi returns an error.
Atoi(s) ==
    LET signed == Len(s) > 0 /\ At(s, 1) \in {"+", "-"}
        body   == IF signed THEN SubSeq(s, 2, Len(s)) ELSE s
        ok     == Len(body) > 0 /\ \A i \in 1..Len(body) : IsDigit(At(body, i))
    IN  [ok  |-> ok,
         val |-> IF ~ok THEN 0
                 ELSE IF signed /\ At(s, 1) = "-" THEN 0 - DecimalVal(body)
                 ELSE DecimalVal(body)]

\* The regexp class \w.
WordChars ==
    {"A", "B", "C", "D", "E", "F", "G", "H", "I", "J", "K", "L", "M", "N",
     "O", "P", "Q", "R", "S", "T", "U", "V", "W", "X", "Y", "Z", "a", "b",
     "c", "d", "e", "f", "g", "h", "i", "j", "k", "l", "m", "n", "o", "p",
     "q", "r", "s", "t", "u", "v", "w", "x", "y", "z", "0", "1", "2", "3",
     "4", "5", "6", "7", "8", "9", "_"}


\* ------------------------------------------------------------------------
\* Reply lines and buffers.
\* ------------------------------------------------------------------------

\* new(ResponseBuffer) with the two slices made empty, as Parser.Reset
\* builds it.  The zero ResponseBuffer a closed channel yields has the same
\* observable content (no lines, EndReplyLine "").
NewResponseBuffer ==
    [MidReplyLines |-> <<>>, DataReplyLines |-> <<>>, EndReplyLine |-> ""]

\* MidReplyLine.Text: _parts()[1].  Defined for lines that hold a "-".
MidReplyText(l) == SplitN2(l, "-")[2]

\* EndReplyLine.Status
EndReplyStatus(l) ==
    LET a == Atoi(SplitN2(l, " ")[1])
    IN  IF a.ok THEN a.val ELSE -1

\* BaseControlResponse.Status
Status(buf) == EndReplyStatus(buf.EndReplyLine)

\* BaseControlResponse.IsSuccess, had its lower bound been off by one.
IsSuccessAbove300(buf) ==
    LET status == Status(buf)
    IN  IF status > 300 /\ status < 600 THEN FALSE ELSE TRUE

\* BaseControlResponse.IsSuccess
IsSuccess(buf) ==
    LET status == Status(buf)
    IN  IF status > 299 /\ status < 600 THEN FALSE ELSE TRUE

\* NormalizeLine, had it not first replaced CRLF by LF.
NormalizeLineNoCollapse(v) ==
    LET v2 == ReplaceAll(v, "\n", "\r\n")
    IN  IF ~HasSuffix(v2, "\r\n") THEN v2 \o "\r\n" ELSE v2

\* NormalizeLine, had it not appended the missing line ending.
NormalizeLineNoSuffix(v) ==
    LET v1 == ReplaceAll(v, "\r\n", "\n")
    IN  ReplaceAll(v1, "\n", "\r\n")

\* LineBuffer.Normalize: the bytes of one line.
NormalizeLine(v) ==
    LET v1 == ReplaceAll(v, "\r\n", "\n")
        v2 == ReplaceAll(v1, "\n", "\r\n")
    IN  IF ~HasSuffix(v2, "\r\n") THEN v2 \o "\r\n" ELSE v2

\* LineBuffer.Normalize
RECURSIVE Normalize(_)
Normalize(b) ==
    IF b = <<>> THEN ""
    ELSE NormalizeLine(Head(b)) \o Normalize(Tail(b))

\* NewRequest(data).Serialize(): a LineBuffer of the one line.
NewRequest(data) == <<data>>

\* ------------------------------------------------------------------------
\* PROTOCOLINFO accessors.
\* ------------------------------------------------------------------------

\* __find_prefix_mrl
RECURSIVE find_prefix_mrl(_, _)
find_prefix_mrl(data, prefix) ==
    IF data = <<>> THEN ""
    ELSE IF HasPrefix(MidReplyText(Head(data)), prefix)
         THEN MidReplyText(Head(data))
         ELSE find_prefix_mrl(Tail(data), prefix)

\* End of the longest run of characters of class cls that starts at pos
\* (pos - 1 when the run is empty).
RECURSIVE RunEnd(_, _, _)
RunEnd(s, pos, cls) ==
    IF pos <= Len(s) /\ At(s, pos) \in cls
    THEN RunEnd(s, pos + 1, cls) ELSE pos - 1

\* The quoted alternative of the value: from the character after the opening
\* quote, skip escaped characters and plain characters up to the closing
\* quote; 0 when the string ends first.
RECURSIVE QuotedEnd(_, _)
QuotedEnd(s, pos) ==
    IF pos > Len(s) THEN 0
    ELSE IF At(s, pos) = "\"" THEN pos
    ELSE IF At(s, pos) = "\\"
         THEN IF pos + 1 <= Len(s) /\ At(s, pos + 1) # "\n"
              THEN QuotedEnd(s, pos + 2) ELSE 0
    ELSE QuotedEnd(s, pos + 1)

\* One match of ([/\w]+)=(([,\w]+)|("(?:\\.|[^"\\])*)") starting at pos.
MatchVariable(s, pos) ==
    LET kEnd == RunEnd(s, pos, WordChars \cup {"/"})
        vPos == kEnd + 2
        wEnd == RunEnd(s, vPos, WordChars \cup {","})
        qEnd == IF At(s, vPos) = "\"" THEN QuotedEnd(s, vPos + 1) ELSE 0
        vEnd == IF wEnd >= vPos THEN wEnd ELSE qEnd
    IN  IF kEnd >= pos /\ At(s, kEnd + 1) = "=" /\ vEnd # 0
        THEN [ok |-> TRUE, end |-> vEnd,
              key |-> SubSeq(s, pos, kEnd), value |-> SubSeq(s, vPos, vEnd)]
        ELSE [ok |-> FALSE, end |-> 0, key |-> "", value |-> ""]

\* FindAllStringSubmatch: the leftmost matches, left to right.
RECURSIVE FindAllVariables(_, _)
FindAllVariables(s, pos) ==
    IF pos > Len(s) THEN <<>>
    ELSE LET m == MatchVariable(s, pos)
         IN  IF m.ok
             THEN <<m>> \o FindAllVariables(s, m.end + 1)
             ELSE FindAllVariables(s, pos + 1)

\* __make_variable_map: the (key, value) pairs in the order they are stored;
\* a later pair of the same key overwrites an earlier one.
make_variable_map(data) ==
    LET ms == FindAllVariables(data, 1)
    IN  [i \in 1..Len(ms) |->
            [key   |-> ms[i].key,
             value |-> TrimPrefix(TrimSuffix(ms[i].value, "\""), "\"")]]

\* Go's map index: the value stored last under key, "" when there is none.
MapGet(m, key) ==
    LET hits == {i \in 1..Len(m) : m[i].key = key}
    IN  IF hits = {} THEN ""
        ELSE m[CHOOSE i \in hits : \A j \in hits : j <= i].value

\* ProtocolInfoResponse.Auth slices text[len("AUTH"):]; with no AUTH line the
\* text is "" and the slice expression panics.
AuthPanics(buf) == Len(find_prefix_mrl(buf.MidReplyLines, "AUTH")) < 4

\* ProtocolInfoResponse.Auth
Auth(buf) ==
    LET text == find_prefix_mrl(buf.MidReplyLines, "AUTH")
    IN  make_variable_map(SubSeq(text, 5, Len(text)))

\* ProtocolInfoResponse.AuthMethods
AuthMethods(buf) == SplitAll(MapGet(Auth(buf), "METHODS"), ",")

\* ProtocolInfoResponse.AuthCookieFile
AuthCookieFile(buf) == MapGet(Auth(buf), "COOKIEFILE")


\* ------------------------------------------------------------------------
\* The reply parser (pure part): its state is a record, one loop iteration
\* is a function of the state and of what ReadString returned.
\* ------------------------------------------------------------------------

\* isReplyLine, had it not required the first three characters to parse as
\* an integer.
isReplyLineAnyStatus(ln) == Len(ln) >= 5

\* isReplyLine
isReplyLine(ln) ==
    IF Len(ln) < 5 THEN FALSE
    ELSE IF ~Atoi(SubSeq(ln, 1, 3)).ok THEN FALSE
    ELSE TRUE

\* isEndReplyLine
isEndReplyLine(ln) ==
    IF ~isReplyLine(ln) \/ At(ln, 4) # " " THEN FALSE ELSE TRUE

\* isMidReplyLine
isMidReplyLine(ln) ==
    IF ~isReplyLine(ln) \/ At(ln, 4) # "-" THEN FALSE ELSE TRUE

\* isDataReplyLine
isDataReplyLine(ln) ==
    IF ~isReplyLine(ln) \/ At(ln, 4) # "+" THEN FALSE ELSE TRUE

\* isEndOfData
isEndOfData(ln) ==
    IF Len(ln) # 1 \/ At(ln, 1) # "." THEN FALSE ELSE TRUE

\* Reset, had it kept the mid-reply lines of the buffer.
ResetKeepingMidReplyLines(p) ==
    [p EXCEPT !.buffer = [NewResponseBuffer EXCEPT
                             !.MidReplyLines = p.buffer.MidReplyLines],
              !.bufferRaw = <<>>,
              !.isReady = TRUE,
              !.isMultiLine = FALSE]

\* Parser.Reset
Reset(p) ==
    [p EXCEPT !.buffer = NewResponseBuffer,
              !.bufferRaw = <<>>,
              !.isReady = TRUE,
              !.isMultiLine = FALSE]

\* NewParser: new(Parser) followed by Reset.
NewParser ==
    Reset([buffer |-> NewResponseBuffer, dataReplyLine |-> <<>>,
           bufferRaw |-> <<>>, isReady |-> FALSE, isMultiLine |-> FALSE])

\* RunReady, had its default case discarded the line and kept the buffer.
RunReadyDiscardingLine(p, ln) ==
    CASE isEndReplyLine(ln) ->
            [p |-> [p EXCEPT !.buffer.EndReplyLine = ln], next |-> "post"]
      [] isMidReplyLine(ln) ->
            [p |-> [p EXCEPT !.buffer.MidReplyLines = Append(@, ln)],
             next |-> "read"]
      [] isDataReplyLine(ln) ->
            [p |-> [p EXCEPT !.dataReplyLine = <<ln>>,
                             !.isReady = FALSE,
                             !.isMultiLine = TRUE],
             next |-> "read"]
      [] OTHER ->
            [p |-> p, next |-> "read"]

\* The READY branch of the loop for the stripped line ln.  next tells where
\* the goroutine goes: "post" (into Parser.post) or "read" (continue).
RunReady(p, ln) ==
    CASE isEndReplyLine(ln) ->
            [p |-> [p EXCEPT !.buffer.EndReplyLine = ln], next |-> "post"]
      [] isMidReplyLine(ln) ->
            [p |-> [p EXCEPT !.buffer.MidReplyLines = Append(@, ln)],
             next |-> "read"]
      [] isDataReplyLine(ln) ->
            [p |-> [p EXCEPT !.dataReplyLine = <<ln>>,
                             !.isReady = FALSE,
                             !.isMultiLine = TRUE],
             next |-> "read"]
      [] OTHER ->
            [p |-> Reset(p), next |-> "read"]

\* RunMultiLine, had it left isMultiLine set at the end of a data block.
RunMultiLineKeepingFlag(p, ln) ==
    IF ~isEndOfData(ln)
    THEN [p |-> [p EXCEPT !.dataReplyLine = Append(@, ln)], next |-> "read"]
    ELSE [p |-> [p EXCEPT !.buffer.DataReplyLines = Append(@, p.dataReplyLine),
                          !.isReady = TRUE],
          next |-> "read"]

\* The multi-line branch of the loop for the stripped line ln.
RunMultiLine(p, ln) ==
    IF ~isEndOfData(ln)
    THEN [p |-> [p EXCEPT !.dataReplyLine = Append(@, ln)], next |-> "read"]
    ELSE [p |-> [p EXCEPT !.buffer.DataReplyLines = Append(@, p.dataReplyLine),
                          !.isReady = TRUE,
                          !.isMultiLine = FALSE],
          next |-> "read"]

\* RunStep, had it taken a bare LF for a line ending too.
RunStepTrimmingLF(p, rd) ==
    IF rd.e = "EOF" THEN [p |-> p, next |-> "exit"]
    ELSE IF rd.e # "nil" THEN [p |-> p, next |-> "read"]
    ELSE IF ~HasSuffix(rd.ln, "\n") THEN [p |-> p, next |-> "read"]
    ELSE LET ln == TrimSuffix(TrimSuffix(rd.ln, "\n"), "\r")
             p1 == [p EXCEPT !.bufferRaw = Append(@, ln)]
         IN  IF p1.isReady THEN RunReady(p1, ln)
             ELSE IF p1.isMultiLine THEN RunMultiLine(p1, ln)
             ELSE [p |-> p1, next |-> "read"]

\* RunStep, had it handed off the buffer in progress at the end of the
\* stream.
RunStepFlushingAtEOF(p, rd) ==
    IF rd.e = "EOF" THEN [p |-> p, next |-> "post"]
    ELSE IF rd.e # "nil" THEN [p |-> p, next |-> "read"]
    ELSE IF ~HasSuffix(rd.ln, "\r\n") THEN [p |-> p, next |-> "read"]
    ELSE LET ln == TrimSuffix(rd.ln, "\r\n")
             p1 == [p EXCEPT !.bufferRaw = Append(@, ln)]
         IN  IF p1.isReady THEN RunReady(p1, ln)
             ELSE IF p1.isMultiLine THEN RunMultiLine(p1, ln)
             ELSE [p |-> p1, next |-> "read"]

\* One iteration of the loop of Parser.Run.  rd is what ReadString('\n')
\* returned: its string and its error ("nil", "EOF", or "err" for any other
\* error).  next = "exit" is the break out of the loop.
RunStep(p, rd) ==
    IF rd.e = "EOF" THEN [p |-> p, next |-> "exit"]
    ELSE IF rd.e # "nil" THEN [p |-> p, next |-> "read"]
    ELSE IF ~HasSuffix(rd.ln, "\r\n") THEN [p |-> p, next |-> "read"]
    ELSE LET ln == TrimSuffix(rd.ln, "\r\n")
             p1 == [p EXCEPT !.bufferRaw = Append(@, ln)]
         IN  IF p1.isReady THEN RunReady(p1, ln)
             ELSE IF p1.isMultiLine THEN RunMultiLine(p1, ln)
             ELSE [p |-> p1, next |-> "read"]


\* ------------------------------------------------------------------------
\* Bounds and the environment's choices.
\* ------------------------------------------------------------------------

\* Successful dials in one run.
MaxConns == 2

\* Calls of Request made by the API user (not by Connect) in one run.
MaxRequests == 1

\* Calls of Close made on a second context in one run.
MaxAsyncCloses == 1

\* Connections dialed in a run in which a second context calls Close.
MaxAsyncDialed == 1

Conns == 1..MaxConns

\* Controller.Password, set by the user before Connect.
Password == "pw"

\* The content of the cookie file, as byte values.
CookieBytes == <<1, 171>>

HexDigits == "0123456789abcdef"

\* fmt's %x of a byte slice: two lowercase hex digits per byte.
RECURSIVE Hex(_)
Hex(bytes) ==
    IF bytes = <<>> THEN ""
    ELSE At(HexDigits, (Head(bytes) \div 16) + 1)
             \o At(HexDigits, (Head(bytes) % 16) + 1) \o Hex(Tail(bytes))

\* The METHODS values a server advertises in this model.
MethodLists ==
    {"COOKIE,SAFECOOKIE", "HASHEDPASSWORD", "HASHEDPASSWORD,NULL",
     "SAFECOOKIE"}

\* What the server may answer to a request, by the command it reads: each
\* answer is a sequence of units, a unit being what one ReadString('\n')
\* returns.
ProtocolInfoReplies ==
    {<<"250-AUTH METHODS=" \o m \o " COOKIEFILE=\"/c\"\r\n", "250 OK\r\n">> :
        m \in MethodLists}
    \cup {<<"510 Unrecognized command\r\n">>}

AuthenticateReplies ==
    {<<"250 OK\r\n">>, <<"515 Bad authentication\r\n">>}

OtherReplies ==
    {<<"250-version=1.0\r\n", "250 OK\r\n">>}

RepliesTo(bytes) ==
    IF HasPrefix(bytes, "PROTOCOLINFO") THEN ProtocolInfoReplies
    ELSE IF HasPrefix(bytes, "AUTHENTICATE") THEN AuthenticateReplies
    ELSE OtherReplies


\* ------------------------------------------------------------------------
\* State.
\* ------------------------------------------------------------------------

VARIABLES
    connection,       \* Controller.connection: 0 is nil, else the connection
    isConnected,      \* Controller.isConnected
    isAuthenticated,  \* Controller.isAuthenticated
    in,               \* Controller.in: 0 is the nil channel, else the channel
    authenticator,    \* Controller.authenticator: "nil" or a method name
    conns,            \* the transports the dialer returned, by connection
    chans,            \* the channels made by Connect, by connection
    parsers,          \* the parser goroutines started by Connect
    pc,               \* the caller's context: "idle", "wait" in the select, or
                      \* the statement of Close that comes next (SpecAsync)
    stage,            \* which Request the caller is in
    protoinfo,        \* Connect's local protoinfo, while it authenticates
    timer,            \* the time.After timer of the Request in progress
    last,             \* what the last finished call returned
    closer,           \* a second context running Close (SpecAsync only)
    nreq,             \* API calls of Request made so far
    nclose,           \* calls of Close made on the second context so far
    stream,           \* history: the units the parser was started on (SpecParser)
    outbound,         \* the LineBuffer of a SendMessage call about to be made
    panic             \* "none", or the run-time panic that ended the process

vars ==
    <<connection, isConnected, isAuthenticated, in, authenticator, conns,
      chans, parsers, pc, stage, protoinfo, timer, last, closer, nreq,
      nclose, stream, outbound, panic>>

controllerVars ==
    <<connection, isConnected, isAuthenticated, in, authenticator>>

\* What a finished call returned.  op is the call, err its error ("nil" for
\* none), authErr what the authenticator returned when Connect ran one
\* ("none" when it ran none), buf the buffer the last Request of the call
\* received.  conn, req and got are history: the connection the call used,
\* the position among the requests written on it of the request waited for,
\* and the position among the buffers taken from its channel of the buffer
\* received (0 for none).
Returned(op, err, authErr, buf, conn, req, got) ==
    [op |-> op, err |-> err, authErr |-> authErr, buf |-> buf,
     conn |-> conn, req |-> req, got |-> got]

\* No call has returned since the caller began the call in progress (or
\* since the Controller was made).
NoCall == Returned("none", "nil", "none", NewResponseBuffer, 0, 0, 0)

\* A transport: state is "none" before the dial, "open", "eof" once the
\* server has closed its end, "closed" once Close has closed it; wire holds
\* the units received and not read yet, written the requests written on it,
\* answered how many of them the server has answered, taken how many buffers
\* were received from its channel.  failing tells that a read on the
\* transport, closed locally, has returned an error other than io.EOF: the
\* transport is then of the kind whose reads all fail so from then on.
NoTransport ==
    [state |-> "none", wire |-> <<>>, written |-> <<>>, answered |-> 0,
     taken |-> 0, failing |-> FALSE]

\* (*c.connection).Close(): what was written is gone with the transport;
\* what the reader had received may still be buffered in it.
ClosedTransport(c) == [NoTransport EXCEPT !.state = "closed", !.wire = c.wire]

NoChan == [made |-> FALSE, buf |-> <<>>, closed |-> FALSE]

NoParser == [pc |-> "none", p |-> NewParser]

\* No SendMessage call is about to be made.
NoSend == [buffer |-> <<>>, pending |-> FALSE]

\* A goroutine that left the loop of Run: its parser is garbage, and so is
\* whatever its transport still held.
Exited == [pc |-> "exit", p |-> NewParser]

\* NewController
Init ==
    /\ connection = 0
    /\ isConnected = FALSE
    /\ isAuthenticated = FALSE
    /\ in = 0
    /\ authenticator = "nil"
    /\ conns = [k \in Conns |-> NoTransport]
    /\ chans = [k \in Conns |-> NoChan]
    /\ parsers = [k \in Conns |-> NoParser]
    /\ pc = "idle"
    /\ stage = "none"
    /\ protoinfo = NewResponseBuffer
    /\ timer = "off"
    /\ last = NoCall
    /\ closer = "idle"
    /\ nreq = 0
    /\ nclose = 0
    /\ stream = <<>>
    /\ outbound = NoSend
    /\ panic = "none"

\* Controller.IsConnected, had it also required the session to be
\* authenticated.
IsConnectedAndAuthenticated == isConnected /\ isAuthenticated

\* Controller.IsConnected
IsConnected == isConnected

\* Controller.IsAuthenticated
IsAuthenticated == isAuthenticated

\* The number of connections dialed so far.
Dialed == Cardinality({k \in Conns : conns[k].state # "none"})

\* Controller.SendMessage: what the write can do.  A nil connection is a
\* nil dereference; a write on a transport closed locally fails; any other
\* write succeeds or fails as the transport decides.
SendOutcomes ==
    IF connection = 0 THEN {"panic"}
    ELSE IF conns[connection].state = "closed" THEN {"err"}
    ELSE {"ok", "err"}

\* The transports after SendMessage wrote buffer (a LineBuffer).
AfterWrite(buffer) ==
    [conns EXCEPT ![connection].written = Append(@, Normalize(buffer))]

\* The select of Request: the receive case is ready when the channel holds
\* a buffer or is closed; the timer case when the timer has fired.
RecvReady ==
    /\ pc = "wait"
    /\ in # 0
    /\ (Len(chans[in].buf) > 0 \/ chans[in].closed)

TimeoutReady ==
    /\ pc = "wait"
    /\ timer = "fired"

\* What the receive yields: the buffered item, or the zero ResponseBuffer of
\* a closed and drained channel.
RecvValue ==
    IF Len(chans[in].buf) > 0 THEN Head(chans[in].buf) ELSE NewResponseBuffer

\* The channels and transports after the receive.
AfterRecvChans ==
    IF Len(chans[in].buf) > 0 THEN [chans EXCEPT ![in].buf = Tail(@)]
    ELSE chans

TakenNow == IF Len(chans[in].buf) > 0 THEN conns[in].taken + 1 ELSE 0

AfterRecvConns ==
    IF Len(chans[in].buf) > 0 THEN [conns EXCEPT ![in].taken = @ + 1]
    ELSE conns


\* ------------------------------------------------------------------------
\* Authentication.
\* ------------------------------------------------------------------------

\* authPrefs of Connect, by MethodName().
authPrefs == <<"COOKIE", "HASHEDPASSWORD", "NULL">>

\* Whether the inner loop of Connect finds v = i.MethodName() among methods.
Advertised(methods, name) == \E j \in 1..Len(methods) : methods[j] = name

\* The two nested loops of Connect that set c.authenticator: cur is the
\* field's value before the loops.  The break leaves the inner loop only, so
\* every preferred strategy that is advertised is assigned in turn.
RECURSIVE SelectAuthenticator(_, _, _)
SelectAuthenticator(prefs, methods, cur) ==
    IF prefs = <<>> THEN cur
    ELSE SelectAuthenticator(Tail(prefs), methods,
             IF Advertised(methods, Head(prefs)) THEN Head(prefs) ELSE cur)

\* The request line each strategy sends.
AuthenticateLine(a) ==
    CASE a = "COOKIE" -> "AUTHENTICATE " \o Hex(CookieBytes)
      [] a = "HASHEDPASSWORD" -> "AUTHENTICATE \"" \o Password \o "\""
      [] OTHER -> "AUTHENTICATE"

\* OpenAuthenticator.Authenticate from the return of c.Request on: e is the
\* error of Request, buf the response, auth the flag before.  The result is
\* the error returned and the flag after.
OpenAuthenticate(e, buf, auth) ==
    IF e # "nil" THEN [err |-> e, isAuthenticated |-> auth]
    ELSE IF ~IsSuccess(buf)
         THEN [err |-> "failed", isAuthenticated |-> IsSuccess(buf)]
         ELSE [err |-> "nil", isAuthenticated |-> IsSuccess(buf)]

\* CookieAuthenticator.Authenticate from the return of c.Request on.
CookieAuthenticate(e, buf, auth) ==
    IF e # "nil" THEN [err |-> e, isAuthenticated |-> auth]
    ELSE IF ~IsSuccess(buf) THEN [err |-> e, isAuthenticated |-> auth]
    ELSE [err |-> "nil", isAuthenticated |-> IsSuccess(buf)]

\* PasswordAuthenticator.Authenticate from the return of c.Request on.
PasswordAuthenticate(e, buf, auth) ==
    IF e # "nil" THEN [err |-> e, isAuthenticated |-> auth]
    ELSE IF ~IsSuccess(buf) THEN [err |-> e, isAuthenticated |-> auth]
    ELSE [err |-> "nil", isAuthenticated |-> IsSuccess(buf)]

\* SafeCookieAuthenticator.Authenticate: auth is the flag before.
SafeCookieAuthenticate(auth) ==
    [err |-> "notimplemented", isAuthenticated |-> auth]

\* c.authenticator.Authenticate, dispatched on the strategy.
Authenticate(a, e, buf, auth) ==
    CASE a = "COOKIE" -> CookieAuthenticate(e, buf, auth)
      [] a = "HASHEDPASSWORD" -> PasswordAuthenticate(e, buf, auth)
      [] OTHER -> OpenAuthenticate(e, buf, auth)

\* ConnectAuthError, had Connect swallowed the error of reading the cookie
\* file.
ConnectAuthErrorSwallowingRead(e) ==
    IF e # "nil" /\ e # "read" THEN "authfailed" ELSE "nil"

\* The error Connect returns for the error e of Authenticate.
ConnectAuthError(e) == IF e # "nil" THEN "authfailed" ELSE "nil"

\* ------------------------------------------------------------------------
\* The caller's context: Connect, Close, Request.
\* ------------------------------------------------------------------------

\* Connect, had it kept the handoff channel of the session when it has one.
ConnectReusingChannel(dialOk, w) ==
    /\ pc = "idle"
    /\ panic = "none"
    /\ IF IsConnected
       THEN /\ last' = Returned("Connect", "nil", "none", NewResponseBuffer,
                                connection, 0, 0)
            /\ UNCHANGED <<controllerVars, conns, chans, parsers, pc, stage,
                           timer>>
       ELSE IF ~dialOk \/ Dialed = MaxConns
       THEN /\ last' = Returned("Connect", "dial", "none", NewResponseBuffer,
                                0, 0, 0)
            /\ UNCHANGED <<controllerVars, conns, chans, parsers, pc, stage,
                           timer>>
       ELSE LET k == Dialed + 1
                bytes == Normalize(NewRequest("PROTOCOLINFO"))
            IN  /\ connection' = k
                /\ isConnected' = TRUE
                /\ in' = IF in # 0 THEN in ELSE k
                /\ chans' = IF in # 0 THEN chans
                            ELSE [chans EXCEPT ![k] =
                                     [made |-> TRUE, buf |-> <<>>,
                                      closed |-> FALSE]]
                /\ parsers' = [parsers EXCEPT ![k] =
                                [pc |-> "read", p |-> NewParser]]
                /\ UNCHANGED <<isAuthenticated, authenticator>>
                /\ IF w = "ok"
                   THEN /\ conns' = [conns EXCEPT ![k] =
                                [NoTransport EXCEPT !.state = "open",
                                                    !.written = <<bytes>>]]
                        /\ pc' = "wait"
                        /\ stage' = "protocolinfo"
                        /\ timer' = "armed"
                        /\ last' = NoCall
                   ELSE /\ conns' = [conns EXCEPT ![k] =
                                [NoTransport EXCEPT !.state = "open"]]
                        /\ last' = Returned("Connect", "write", "none",
                                            NewResponseBuffer, k, 0, 0)
                        /\ UNCHANGED <<pc, stage, timer>>
    /\ UNCHANGED <<protoinfo, closer, nreq, nclose, stream, outbound, panic>>

\* Controller.Connect up to its first blocking point, the select of the
\* PROTOCOLINFO request.  dialOk is the dialer's answer, w the write's.
Connect(dialOk, w) ==
    /\ pc = "idle"
    /\ panic = "none"
    /\ IF IsConnected
       THEN /\ last' = Returned("Connect", "nil", "none", NewResponseBuffer,
                                connection, 0, 0)
            /\ UNCHANGED <<controllerVars, conns, chans, parsers, pc, stage,
                           timer>>
       ELSE IF ~dialOk \/ Dialed = MaxConns
       THEN /\ last' = Returned("Connect", "dial", "none", NewResponseBuffer,
                                0, 0, 0)
            /\ UNCHANGED <<controllerVars, conns, chans, parsers, pc, stage,
                           timer>>
       ELSE LET k == Dialed + 1
                bytes == Normalize(NewRequest("PROTOCOLINFO"))
            IN  /\ connection' = k
                /\ isConnected' = TRUE
                /\ in' = k
                /\ chans' = [chans EXCEPT ![k] =
                                [made |-> TRUE, buf |-> <<>>, closed |-> FALSE]]
                /\ parsers' = [parsers EXCEPT ![k] =
                                [pc |-> "read", p |-> NewParser]]
                /\ UNCHANGED <<isAuthenticated, authenticator>>
                /\ IF w = "ok"
                   THEN /\ conns' = [conns EXCEPT ![k] =
                                [NoTransport EXCEPT !.state = "open",
                                                    !.written = <<bytes>>]]
                        /\ pc' = "wait"
                        /\ stage' = "protocolinfo"
                        /\ timer' = "armed"
                        /\ last' = NoCall
                   ELSE /\ conns' = [conns EXCEPT ![k] =
                                [NoTransport EXCEPT !.state = "open"]]
                        /\ last' = Returned("Connect", "write", "none",
                                            NewResponseBuffer, k, 0, 0)
                        /\ UNCHANGED <<pc, stage, timer>>
    /\ UNCHANGED <<protoinfo, closer, nreq, nclose, stream, outbound, panic>>

\* Connect from the reply to PROTOCOLINFO up to its next blocking point:
\* Request returns the buffer, the authenticator is selected, and its
\* Authenticate runs up to the select of the AUTHENTICATE request.  readable
\* tells whether ioutil.ReadFile can read the cookie file, w what the write
\* does.
ConnectNegotiate(readable, w) ==
    /\ stage = "protocolinfo"
    /\ panic = "none"
    /\ RecvReady
    /\ LET buf == RecvValue
           req == Len(conns[in].written)
           a == SelectAuthenticator(authPrefs, AuthMethods(buf), authenticator)
           fail(err, authErr) ==
               /\ last' = Returned("Connect", err, authErr, buf, in, req,
                                   TakenNow)
               /\ pc' = "idle"
               /\ stage' = "none"
               /\ timer' = "off"
               /\ conns' = AfterRecvConns
               /\ UNCHANGED <<protoinfo, panic>>
           crash(what) ==
               /\ panic' = what
               /\ pc' = "idle"
               /\ stage' = "none"
               /\ timer' = "off"
               /\ conns' = AfterRecvConns
               /\ UNCHANGED <<last, protoinfo>>
       IN  /\ chans' = AfterRecvChans
           /\ IF AuthPanics(buf)
              THEN /\ crash("slice bounds out of range")
                   /\ UNCHANGED authenticator
              ELSE /\ authenticator' = a
                   /\ IF a = "nil" THEN fail("nocompat", "none")
                      ELSE IF a = "COOKIE"
                              /\ (AuthCookieFile(buf) = "" \/ ~readable)
                      THEN fail(ConnectAuthError("read"), "read")
                      ELSE IF w = "panic"
                      THEN crash("nil pointer dereference")
                      ELSE IF w = "err"
                      THEN fail(ConnectAuthError(
                                    Authenticate(a, "write", buf,
                                                 isAuthenticated).err),
                                "write")
                      ELSE /\ conns' = [AfterRecvConns EXCEPT
                                  ![connection].written = Append(@,
                                     Normalize(NewRequest(AuthenticateLine(a))))]
                           /\ protoinfo' = buf
                           /\ stage' = "auth"
                           /\ timer' = "armed"
                           /\ UNCHANGED <<last, pc, panic>>
    /\ UNCHANGED <<connection, isConnected, isAuthenticated, in, parsers,
                   closer, nreq, nclose, stream, outbound>>

\* Connect from the reply to AUTHENTICATE to its return: Request returns the
\* buffer, Authenticate sets the flag and returns, Connect returns.
ConnectAuthenticated ==
    /\ stage = "auth"
    /\ panic = "none"
    /\ RecvReady
    /\ LET buf == RecvValue
           r == Authenticate(authenticator, "nil", buf, isAuthenticated)
       IN  /\ isAuthenticated' = r.isAuthenticated
           /\ last' = Returned("Connect", ConnectAuthError(r.err), r.err, buf,
                               in, Len(conns[in].written), TakenNow)
    /\ chans' = AfterRecvChans
    /\ conns' = AfterRecvConns
    /\ pc' = "idle"
    /\ stage' = "none"
    /\ timer' = "off"
    /\ protoinfo' = NewResponseBuffer
    /\ UNCHANGED <<connection, isConnected, in, authenticator, parsers,
                   closer, nreq, nclose, stream, outbound, panic>>

\* ConnectProtocolInfoTimeout, had Connect gone on to authenticate after the
\* timeout.
ConnectProtocolInfoTimeoutAuthenticating ==
    /\ stage = "protocolinfo"
    /\ panic = "none"
    /\ TimeoutReady
    /\ last' = Returned("Connect", "timeout", "none", NewResponseBuffer, in,
                        Len(conns[in].written), 0)
    /\ conns' = [conns EXCEPT ![in].written =
                    Append(@, Normalize(NewRequest(AuthenticateLine("NULL"))))]
    /\ pc' = "idle"
    /\ stage' = "none"
    /\ timer' = "off"
    /\ UNCHANGED <<controllerVars, chans, parsers, protoinfo, closer,
                   nreq, nclose, stream, outbound, panic>>

\* The timeout case of the select in the PROTOCOLINFO request: Request
\* returns the timeout error and Connect returns it.
ConnectProtocolInfoTimeout ==
    /\ stage = "protocolinfo"
    /\ panic = "none"
    /\ TimeoutReady
    /\ last' = Returned("Connect", "timeout", "none", NewResponseBuffer, in,
                        Len(conns[in].written), 0)
    /\ pc' = "idle"
    /\ stage' = "none"
    /\ timer' = "off"
    /\ UNCHANGED <<controllerVars, conns, chans, parsers, protoinfo, closer,
                   nreq, nclose, stream, outbound, panic>>

\* The timeout case of the select in the AUTHENTICATE request: Request
\* returns the timeout error, Authenticate returns it, Connect fails.
ConnectAuthTimeout ==
    /\ stage = "auth"
    /\ panic = "none"
    /\ TimeoutReady
    /\ LET r == Authenticate(authenticator, "timeout", NewResponseBuffer,
                             isAuthenticated)
       IN  /\ isAuthenticated' = r.isAuthenticated
           /\ last' = Returned("Connect", ConnectAuthError(r.err), r.err,
                               NewResponseBuffer, in,
                               Len(conns[in].written), 0)
    /\ pc' = "idle"
    /\ stage' = "none"
    /\ timer' = "off"
    /\ protoinfo' = NewResponseBuffer
    /\ UNCHANGED <<connection, isConnected, in, authenticator, conns, chans,
                   parsers, closer, nreq, nclose, stream, outbound, panic>>

\* The user calls Authenticate of a SafeCookieAuthenticator of its own on the
\* Controller.
CallSafeCookieAuthenticate ==
    /\ pc = "idle"
    /\ panic = "none"
    /\ LET r == SafeCookieAuthenticate(isAuthenticated)
       IN  /\ isAuthenticated' = r.isAuthenticated
           /\ last' = Returned("SafeCookieAuthenticate", r.err, r.err,
                               NewResponseBuffer, connection, 0, 0)
    /\ UNCHANGED <<connection, isConnected, in, authenticator, conns, chans,
                   parsers, pc, stage, protoinfo, timer, closer, nreq, nclose,
                   stream, outbound, panic>>

\* Controller.Close, had it not returned at once with no connection.
CloseUnguarded ==
    /\ pc = "idle"
    /\ panic = "none"
    /\ IF connection = 0
       THEN /\ panic' = "nil pointer dereference"
            /\ UNCHANGED <<controllerVars, conns, chans>>
       ELSE IF chans[in].closed
       THEN /\ conns' = [conns EXCEPT ![connection] = ClosedTransport(@)]
            /\ panic' = "close of closed channel"
            /\ UNCHANGED <<controllerVars, chans>>
       ELSE /\ conns' = [conns EXCEPT ![connection] = ClosedTransport(@)]
            /\ chans' = [chans EXCEPT ![in].closed = TRUE]
            /\ connection' = 0
            /\ isConnected' = FALSE
            /\ isAuthenticated' = FALSE
            /\ UNCHANGED <<in, authenticator, panic>>
    /\ last' = IF connection = 0 \/ chans[in].closed THEN last
               ELSE Returned("Close", "nil", "none", NewResponseBuffer,
                             connection, 0, 0)
    /\ UNCHANGED <<parsers, pc, stage, protoinfo, timer, closer, nreq, nclose, stream, outbound>>

\* Controller.Close, called by the caller between two other calls.
Close ==
    /\ pc = "idle"
    /\ panic = "none"
    /\ IF connection = 0
       THEN UNCHANGED <<controllerVars, conns, chans, panic>>
       ELSE IF chans[in].closed
       THEN /\ conns' = [conns EXCEPT ![connection] = ClosedTransport(@)]
            /\ panic' = "close of closed channel"
            /\ UNCHANGED <<controllerVars, chans>>
       ELSE /\ conns' = [conns EXCEPT ![connection] = ClosedTransport(@)]
            /\ chans' = [chans EXCEPT ![in].closed = TRUE]
            /\ connection' = 0
            /\ isConnected' = FALSE
            /\ isAuthenticated' = FALSE
            /\ UNCHANGED <<in, authenticator, panic>>
    /\ last' = IF connection # 0 /\ chans[in].closed THEN last
               ELSE Returned("Close", "nil", "none", NewResponseBuffer,
                             connection, 0, 0)
    /\ UNCHANGED <<parsers, pc, stage, protoinfo, timer, closer, nreq, nclose, stream, outbound>>

\* An API command: a line the user sends with Request.
ApiLine == "GETINFO version"

\* Controller.Request called by the API user, up to its select.
Request(w) ==
    /\ pc = "idle"
    /\ panic = "none"
    /\ nreq < MaxRequests
    /\ nreq' = nreq + 1
    /\ IF w = "panic"
       THEN /\ panic' = "nil pointer dereference"
            /\ UNCHANGED <<conns, pc, stage, timer, last>>
       ELSE IF w = "err"
       THEN /\ last' = Returned("Request", "write", "none", NewResponseBuffer,
                                connection, 0, 0)
            /\ UNCHANGED <<conns, pc, stage, timer, panic>>
       ELSE /\ conns' = AfterWrite(NewRequest(ApiLine))
            /\ pc' = "wait"
            /\ stage' = "api"
            /\ timer' = "armed"
            /\ last' = NoCall
            /\ UNCHANGED panic
    /\ UNCHANGED <<controllerVars, chans, parsers, protoinfo, closer, nclose, stream, outbound>>

\* The receive case of the select of an API Request: the buffer is wrapped
\* into the response and Request returns nil.
RequestReply ==
    /\ stage = "api"
    /\ panic = "none"
    /\ RecvReady
    /\ last' = Returned("Request", "nil", "none", RecvValue, in,
                        Len(conns[in].written), TakenNow)
    /\ chans' = AfterRecvChans
    /\ conns' = AfterRecvConns
    /\ pc' = "idle"
    /\ stage' = "none"
    /\ timer' = "off"
    /\ UNCHANGED <<controllerVars, parsers, protoinfo, closer, nreq, nclose, stream, outbound,
                   panic>>

\* RequestTimeout, had the timeout case emptied the handoff.
RequestTimeoutDraining ==
    /\ stage = "api"
    /\ panic = "none"
    /\ TimeoutReady
    /\ last' = Returned("Request", "timeout", "none", NewResponseBuffer, in,
                        Len(conns[in].written), 0)
    /\ chans' = [chans EXCEPT ![in].buf = <<>>]
    /\ pc' = "idle"
    /\ stage' = "none"
    /\ timer' = "off"
    /\ UNCHANGED <<controllerVars, conns, parsers, protoinfo, closer, nreq,
                   nclose, stream, outbound, panic>>

\* RequestTimeout, had the timeout case closed the connection.
RequestTimeoutClosing ==
    /\ stage = "api"
    /\ panic = "none"
    /\ TimeoutReady
    /\ last' = Returned("Request", "timeout", "none", NewResponseBuffer, in,
                        Len(conns[in].written), 0)
    /\ conns' = [conns EXCEPT ![in] = ClosedTransport(@)]
    /\ connection' = 0
    /\ isConnected' = FALSE
    /\ pc' = "idle"
    /\ stage' = "none"
    /\ timer' = "off"
    /\ UNCHANGED <<isAuthenticated, in, authenticator, chans, parsers,
                   protoinfo, closer, nreq, nclose, stream, outbound, panic>>

\* The timeout case of the select of an API Request.
RequestTimeout ==
    /\ stage = "api"
    /\ panic = "none"
    /\ TimeoutReady
    /\ last' = Returned("Request", "timeout", "none", NewResponseBuffer, in,
                        Len(conns[in].written), 0)
    /\ pc' = "idle"
    /\ stage' = "none"
    /\ timer' = "off"
    /\ UNCHANGED <<controllerVars, conns, chans, parsers, protoinfo, closer,
                   nreq, nclose, stream, outbound, panic>>

\* time.After: the timer of the Request in progress fires.
TimerFire ==
    /\ pc = "wait"
    /\ panic = "none"
    /\ timer = "armed"
    /\ timer' = "fired"
    /\ UNCHANGED <<controllerVars, conns, chans, parsers, pc, stage,
                   protoinfo, last, closer, nreq, nclose, stream, outbound, panic>>


\* ------------------------------------------------------------------------
\* The parser goroutines and the server.
\* ------------------------------------------------------------------------

\* What ReadString('\n') can return to the parser of connection k: the next
\* unit received; io.EOF once the server has closed and all was read; and,
\* once the transport was closed locally, the error of a read on a closed
\* transport, which is io.EOF or another error by the kind of the transport
\* (a unit the reader had buffered can still be returned; what it had not
\* buffered when the error is returned is never read).  Empty while the
\* read blocks.
Reads(k) ==
    (IF Len(conns[k].wire) > 0 /\ HasSuffix(Head(conns[k].wire), "\n")
     THEN {[ln |-> Head(conns[k].wire), e |-> "nil"]} ELSE {})
    \cup (IF Len(conns[k].wire) > 0 /\ ~HasSuffix(Head(conns[k].wire), "\n")
             /\ conns[k].state = "eof"
          THEN {[ln |-> Head(conns[k].wire), e |-> "EOF"]} ELSE {})
    \cup (IF Len(conns[k].wire) = 0 /\ conns[k].state = "eof"
          THEN {[ln |-> "", e |-> "EOF"]} ELSE {})
    \cup (IF conns[k].state = "closed" /\ ~conns[k].failing
          THEN {[ln |-> "", e |-> "EOF"], [ln |-> "", e |-> "err"]} ELSE {})
    \cup (IF conns[k].state = "closed" /\ conns[k].failing
          THEN {[ln |-> "", e |-> "err"]} ELSE {})

\* ParserRead, had the parser marked the session disconnected when its
\* read returns io.EOF.
ParserReadDisconnecting(k, rd) ==
    /\ panic = "none"
    /\ parsers[k].pc = "read"
    /\ rd \in Reads(k)
    /\ LET r == RunStep(parsers[k].p, rd)
       IN  parsers' = [parsers EXCEPT ![k] =
                          IF r.next = "exit" THEN Exited
                          ELSE [pc |-> r.next, p |-> r.p]]
    /\ conns' = IF rd.e = "nil" THEN [conns EXCEPT ![k].wire = Tail(@)]
                ELSE IF rd.e = "EOF" THEN [conns EXCEPT ![k].wire = <<>>]
                ELSE [conns EXCEPT ![k].wire = <<>>, ![k].failing = TRUE]
    /\ isConnected' = IF rd.e = "EOF" /\ k = connection THEN FALSE
                      ELSE isConnected
    /\ UNCHANGED <<connection, isAuthenticated, in, authenticator, chans, pc,
                   stage, protoinfo, timer, last, closer, nreq, nclose,
                   stream, outbound, panic>>

\* One iteration of the loop of Parser.Run on connection k, up to the send
\* in post when the line ends a reply.
ParserRead(k, rd) ==
    /\ panic = "none"
    /\ parsers[k].pc = "read"
    /\ rd \in Reads(k)
    /\ LET r == RunStep(parsers[k].p, rd)
       IN  parsers' = [parsers EXCEPT ![k] =
                          IF r.next = "exit" THEN Exited
                          ELSE [pc |-> r.next, p |-> r.p]]
    /\ conns' = IF rd.e = "nil" THEN [conns EXCEPT ![k].wire = Tail(@)]
                ELSE IF rd.e = "EOF" THEN [conns EXCEPT ![k].wire = <<>>]
                ELSE [conns EXCEPT ![k].wire = <<>>, ![k].failing = TRUE]
    /\ UNCHANGED <<controllerVars, chans, pc, stage, protoinfo, timer, last,
                   closer, nreq, nclose, stream, outbound, panic>>

\* ParserPost, had the send replaced the buffer in a full slot.
ParserPostOverwriting(k) ==
    /\ panic = "none"
    /\ parsers[k].pc = "post"
    /\ IF chans[k].closed
       THEN /\ panic' = "send on closed channel"
            /\ UNCHANGED <<chans, parsers>>
       ELSE /\ chans' = [chans EXCEPT ![k].buf = <<parsers[k].p.buffer>>]
            /\ parsers' = [parsers EXCEPT ![k] =
                              [pc |-> "read", p |-> Reset(parsers[k].p)]]
            /\ UNCHANGED panic
    /\ UNCHANGED <<controllerVars, conns, pc, stage, protoinfo, timer, last,
                   closer, nreq, nclose, stream, outbound>>

\* Parser.post on connection k: the send on p.ch, then Reset.  The send
\* blocks while the slot is full and panics on a closed channel.
ParserPost(k) ==
    /\ panic = "none"
    /\ parsers[k].pc = "post"
    /\ IF chans[k].closed
       THEN /\ panic' = "send on closed channel"
            /\ UNCHANGED <<chans, parsers>>
       ELSE /\ Len(chans[k].buf) = 0
            /\ chans' = [chans EXCEPT ![k].buf = <<parsers[k].p.buffer>>]
            /\ parsers' = [parsers EXCEPT ![k] =
                              [pc |-> "read", p |-> Reset(parsers[k].p)]]
            /\ UNCHANGED panic
    /\ UNCHANGED <<controllerVars, conns, pc, stage, protoinfo, timer, last,
                   closer, nreq, nclose, stream, outbound>>

\* The server answers the oldest request it has not answered yet.
ServerReply(k, reply) ==
    /\ panic = "none"
    /\ conns[k].state = "open"
    /\ conns[k].answered < Len(conns[k].written)
    /\ reply \in RepliesTo(conns[k].written[conns[k].answered + 1])
    /\ conns' = [conns EXCEPT ![k].wire = @ \o reply,
                              ![k].answered = @ + 1]
    /\ UNCHANGED <<controllerVars, chans, parsers, pc, stage, protoinfo,
                   timer, last, closer, nreq, nclose, stream, outbound, panic>>

\* The server closes its end of connection k.
ServerHangup(k) ==
    /\ panic = "none"
    /\ conns[k].state = "open"
    /\ conns' = [conns EXCEPT ![k].state = "eof"]
    /\ UNCHANGED <<controllerVars, chans, parsers, pc, stage, protoinfo,
                   timer, last, closer, nreq, nclose, stream, outbound, panic>>

AllReplies == ProtocolInfoReplies \cup AuthenticateReplies \cup OtherReplies

\* ------------------------------------------------------------------------
\* The session: one caller, the parser goroutines, the server.
\* ------------------------------------------------------------------------

Next ==
    \/ \E dialOk \in BOOLEAN, w \in {"ok", "err"} : Connect(dialOk, w)
    \/ \E readable \in BOOLEAN, w \in SendOutcomes :
          ConnectNegotiate(readable, w)
    \/ ConnectAuthenticated
    \/ ConnectProtocolInfoTimeout
    \/ ConnectAuthTimeout
    \/ CallSafeCookieAuthenticate
    \/ Close
    \/ \E w \in SendOutcomes : Request(w)
    \/ RequestReply
    \/ RequestTimeout
    \/ TimerFire
    \/ \E k \in Conns : \E rd \in Reads(k) : ParserRead(k, rd)
    \/ \E k \in Conns : ParserPost(k)
    \/ \E k \in Conns : \E reply \in AllReplies : ServerReply(k, reply)
    \/ \E k \in Conns : ServerHangup(k)

Spec == Init /\ [][Next]_vars


\* ------------------------------------------------------------------------
\* The session with Close also called from a second context while the
\* caller is blocked in the select of a Request.
\* ------------------------------------------------------------------------

\* Controller.Close entered on a second context: the test of c.connection.
\* With no connection Close returns at once and changes nothing.  Nothing
\* in Close is synchronised with the caller or the parser, so each later
\* statement is a step of its own; closer names the statement that comes
\* next.
AsyncCloseBegin ==
    /\ panic = "none"
    /\ pc = "wait"
    /\ closer = "idle"
    /\ nclose < MaxAsyncCloses
    /\ connection # 0
    /\ nclose' = nclose + 1
    /\ closer' = "transport"
    /\ UNCHANGED <<controllerVars, conns, chans, parsers, pc, stage,
                   protoinfo, timer, last, nreq, stream, outbound, panic>>

\* (*c.connection).Close() of that Close: c.connection is read again, and
\* is nil when the caller has closed the session since the test.
AsyncCloseTransport ==
    /\ panic = "none"
    /\ closer = "transport"
    /\ IF connection = 0
       THEN /\ panic' = "nil pointer dereference"
            /\ UNCHANGED <<conns, closer>>
       ELSE /\ conns' = [conns EXCEPT ![connection] = ClosedTransport(@)]
            /\ closer' = "channel"
            /\ UNCHANGED panic
    /\ UNCHANGED <<controllerVars, chans, parsers, pc, stage, protoinfo,
                   timer, last, nreq, nclose, stream, outbound>>

\* close(c.in) of that Close, on the channel c.in names at that moment.
AsyncCloseChannel ==
    /\ panic = "none"
    /\ closer = "channel"
    /\ IF chans[in].closed
       THEN /\ panic' = "close of closed channel"
            /\ UNCHANGED <<chans, closer>>
       ELSE /\ chans' = [chans EXCEPT ![in].closed = TRUE]
            /\ closer' = "connection"
            /\ UNCHANGED panic
    /\ UNCHANGED <<controllerVars, conns, parsers, pc, stage, protoinfo,
                   timer, last, nreq, nclose, stream, outbound>>

\* The rest of that Close: its three assignments to the Controller, each a
\* store of its own.
AsyncCloseConnection ==
    /\ panic = "none"
    /\ closer = "connection"
    /\ closer' = "isConnected"
    /\ connection' = 0
    /\ UNCHANGED <<isConnected, isAuthenticated, in, authenticator, conns,
                   chans, parsers, pc, stage, protoinfo, timer, last, nreq,
                   nclose, stream, outbound, panic>>

AsyncCloseIsConnected ==
    /\ panic = "none"
    /\ closer = "isConnected"
    /\ closer' = "isAuthenticated"
    /\ isConnected' = FALSE
    /\ UNCHANGED <<connection, isAuthenticated, in, authenticator, conns,
                   chans, parsers, pc, stage, protoinfo, timer, last, nreq,
                   nclose, stream, outbound, panic>>

AsyncCloseIsAuthenticated ==
    /\ panic = "none"
    /\ closer = "isAuthenticated"
    /\ closer' = "idle"
    /\ isAuthenticated' = FALSE
    /\ UNCHANGED <<connection, isConnected, in, authenticator, conns, chans,
                   parsers, pc, stage, protoinfo, timer, last, nreq, nclose,
                   stream, outbound, panic>>

\* ConnectAuthenticated with the last store of that Close falling between
\* the store of c.isAuthenticated in Authenticate and the test of
\* IsAuthenticated that follows it: the reply is a success, the flag read
\* back is false and Authenticate fails.
ConnectAuthenticatedRaced ==
    /\ stage = "auth"
    /\ panic = "none"
    /\ RecvReady
    /\ closer = "isAuthenticated"
    /\ IsSuccess(RecvValue)
    /\ closer' = "idle"
    /\ isAuthenticated' = FALSE
    /\ last' = Returned("Connect", ConnectAuthError("failed"), "failed",
                        RecvValue, in, Len(conns[in].written), TakenNow)
    /\ chans' = AfterRecvChans
    /\ conns' = AfterRecvConns
    /\ pc' = "idle"
    /\ stage' = "none"
    /\ timer' = "off"
    /\ protoinfo' = NewResponseBuffer
    /\ UNCHANGED <<connection, isConnected, in, authenticator, parsers,
                   nreq, nclose, stream, outbound, panic>>

\* Controller.Close called by the caller while a second context may be in
\* Close too: nothing in Close is synchronised, so each statement of the
\* caller's Close is a step of its own as well, and pc names the statement
\* that comes next.  CloseTest is the test of c.connection; with no
\* connection Close returns at once.
CloseTest ==
    /\ pc = "idle"
    /\ panic = "none"
    /\ IF connection = 0
       THEN /\ last' = Returned("Close", "nil", "none", NewResponseBuffer,
                                0, 0, 0)
            /\ UNCHANGED pc
       ELSE /\ pc' = "transport"
            /\ last' = NoCall
    /\ UNCHANGED <<controllerVars, conns, chans, parsers, stage, protoinfo,
                   timer, closer, nreq, nclose, stream, outbound, panic>>

\* (*c.connection).Close() of the caller's Close: c.connection is read
\* again, and is nil when the second context has stored nil since the test.
CloseTransport ==
    /\ pc = "transport"
    /\ panic = "none"
    /\ IF connection = 0
       THEN /\ panic' = "nil pointer dereference"
            /\ UNCHANGED <<conns, pc>>
       ELSE /\ conns' = [conns EXCEPT ![connection] = ClosedTransport(@)]
            /\ pc' = "channel"
            /\ UNCHANGED panic
    /\ UNCHANGED <<controllerVars, chans, parsers, stage, protoinfo, timer,
                   last, closer, nreq, nclose, stream, outbound>>

\* close(c.in) of the caller's Close.
CloseChannel ==
    /\ pc = "channel"
    /\ panic = "none"
    /\ IF chans[in].closed
       THEN /\ panic' = "close of closed channel"
            /\ UNCHANGED <<chans, pc>>
       ELSE /\ chans' = [chans EXCEPT ![in].closed = TRUE]
            /\ pc' = "connection"
            /\ UNCHANGED panic
    /\ UNCHANGED <<controllerVars, conns, parsers, stage, protoinfo, timer,
                   last, closer, nreq, nclose, stream, outbound>>

\* c.connection = nil of the caller's Close.
CloseConnection ==
    /\ pc = "connection"
    /\ panic = "none"
    /\ pc' = "isConnected"
    /\ connection' = 0
    /\ UNCHANGED <<isConnected, isAuthenticated, in, authenticator, conns,
                   chans, parsers, stage, protoinfo, timer, last, closer,
                   nreq, nclose, stream, outbound, panic>>

\* c.isConnected = false of the caller's Close.
CloseIsConnected ==
    /\ pc = "isConnected"
    /\ panic = "none"
    /\ pc' = "isAuthenticated"
    /\ isConnected' = FALSE
    /\ UNCHANGED <<connection, isAuthenticated, in, authenticator, conns,
                   chans, parsers, stage, protoinfo, timer, last, closer,
                   nreq, nclose, stream, outbound, panic>>

\* c.isAuthenticated = false of the caller's Close, and its return; the
\* connection it closed is the one of the channel c.in.
CloseIsAuthenticated ==
    /\ pc = "isAuthenticated"
    /\ panic = "none"
    /\ pc' = "idle"
    /\ isAuthenticated' = FALSE
    /\ last' = Returned("Close", "nil", "none", NewResponseBuffer, in, 0, 0)
    /\ UNCHANGED <<connection, isConnected, in, authenticator, conns, chans,
                   parsers, stage, protoinfo, timer, closer, nreq, nclose,
                   stream, outbound, panic>>

\* The steps of Next, with the dialer giving MaxAsyncDialed connections at
\* most and the caller's Close taken statement by statement, and the steps
\* of the second context.
NextAsync ==
    \/ \E dialOk \in BOOLEAN, w \in {"ok", "err"} :
          Connect(dialOk, w) /\ Dialed' <= MaxAsyncDialed
    \/ \E readable \in BOOLEAN, w \in SendOutcomes :
          ConnectNegotiate(readable, w)
    \/ ConnectAuthenticated
    \/ ConnectProtocolInfoTimeout
    \/ ConnectAuthTimeout
    \/ CallSafeCookieAuthenticate
    \/ CloseTest
    \/ CloseTransport
    \/ CloseChannel
    \/ CloseConnection
    \/ CloseIsConnected
    \/ CloseIsAuthenticated
    \/ \E w \in SendOutcomes : Request(w)
    \/ RequestReply
    \/ RequestTimeout
    \/ TimerFire
    \/ \E k \in Conns : \E rd \in Reads(k) : ParserRead(k, rd)
    \/ \E k \in Conns : ParserPost(k)
    \/ \E k \in Conns : \E reply \in AllReplies : ServerReply(k, reply)
    \/ \E k \in Conns : ServerHangup(k)
    \/ AsyncCloseBegin
    \/ AsyncCloseTransport
    \/ AsyncCloseChannel
    \/ AsyncCloseConnection
    \/ AsyncCloseIsConnected
    \/ AsyncCloseIsAuthenticated
    \/ ConnectAuthenticatedRaced

SpecAsync == Init /\ [][NextAsync]_vars

\* ------------------------------------------------------------------------
\* Claims about the authentication negotiation and Connect.
\* ------------------------------------------------------------------------

\* The first strategy of the preference order that is advertised, "nil"
\* when none is.
RECURSIVE FirstPreferred(_, _)
FirstPreferred(prefs, methods) ==
    IF prefs = <<>> THEN "nil"
    ELSE IF Advertised(methods, Head(prefs)) THEN Head(prefs)
    ELSE FirstPreferred(Tail(prefs), methods)

\* Connect is inside the AUTHENTICATE request: the negotiation has selected
\* a strategy from the reply held in protoinfo.
Negotiated == pc = "wait" /\ stage = "auth"

\* Connect has just returned (no other call has been made since).
ConnectReturned == pc = "idle" /\ last.op = "Connect"

\* C1: the strategy Connect selects is the first one of the preference order
\* [COOKIE, HASHEDPASSWORD, NULL] whose method name the server advertised.
C1_FirstPreferredSelected ==
    Negotiated => authenticator = FirstPreferred(authPrefs,
                                                 AuthMethods(protoinfo))

\* The reply Connect received to its AUTHENTICATE request, when it has just
\* returned from an Authenticate that got one.
AuthReplied == ConnectReturned /\ last.authErr \in {"nil", "failed"}

\* C2: when the reply to AUTHENTICATE has a status in 300..599, Authenticate
\* returns an error, Connect returns an error and the authenticated flag is
\* false.
C2_AuthFailureIsAnError ==
    (AuthReplied /\ Status(last.buf) \in 300..599)
        => /\ last.authErr # "nil"
           /\ last.err # "nil"
           /\ ~IsAuthenticated

\* C3: whenever Connect returns an error the session is neither connected
\* nor authenticated and holds no connection.
C3_FailedConnectCleansUp ==
    (ConnectReturned /\ last.err # "nil")
        => /\ ~IsConnected
           /\ ~IsAuthenticated
           /\ connection = 0

\* C4: whenever Connect returns no error the session is connected and
\* authenticated.
C4_ConnectSuccessMeansAuthenticated ==
    (ConnectReturned /\ last.err = "nil")
        => /\ IsConnected
           /\ IsAuthenticated

\* Whether some preferred method name is among methods.
AnyPreferred(methods) ==
    \E i \in 1..Len(authPrefs) : Advertised(methods, authPrefs[i])

\* Whether an AUTHENTICATE request was written on connection k.
WroteAuthenticate(k) ==
    \E i \in 1..Len(conns[k].written) :
        HasPrefix(conns[k].written[i], "AUTHENTICATE")

\* C5: when the PROTOCOLINFO reply of the connection being set up advertises
\* no preferred method, Connect sends no AUTHENTICATE request and fails with
\* the no-compatible-method error.
C5_NoCompatibleMethod ==
    /\ Negotiated => AnyPreferred(AuthMethods(protoinfo))
    /\ (ConnectReturned /\ last.authErr \in {"none", "read", "write"}
            /\ last.got # 0 /\ ~AnyPreferred(AuthMethods(last.buf)))
          => (last.err = "nocompat" /\ ~WroteAuthenticate(last.conn))


\* ------------------------------------------------------------------------
\* Claims about Request and the handoff.
\* ------------------------------------------------------------------------

\* A buffer is complete when it carries an end-reply line.
Complete(buf) == isEndReplyLine(buf.EndReplyLine)

\* The last call returned after a Request of its own had returned a buffer
\* with no error; last.buf is that buffer.
Delivered ==
    \/ last.op = "Request" /\ last.err = "nil"
    \/ last.op = "Connect" /\ last.authErr \in {"nil", "failed", "read", "write"}
    \/ last.op = "Connect" /\ last.err = "nocompat"

\* C6: every buffer a Request call delivers as its successful result is
\* complete, whatever the interleaving of Request, Close and the parser.
C6_DeliveredBuffersComplete ==
    /\ Delivered => Complete(last.buf)
    /\ Negotiated => Complete(protoinfo)


\* The buffers a parser starting in state p emits for the units given, when
\* every buffer is taken from the handoff as soon as it is sent.
RECURSIVE Emitted(_, _)
Emitted(p, units) ==
    IF units = <<>> THEN <<>>
    ELSE LET r == RunStep(p, [ln |-> Head(units), e |-> "nil"])
         IN  IF r.next = "post"
             THEN <<r.p.buffer>> \o Emitted(Reset(r.p), Tail(units))
             ELSE Emitted(r.p, Tail(units))

\* The buffers the server's possible answers to the request bytes parse to.
AnswersTo(bytes) == {Emitted(NewParser, r)[1] : r \in RepliesTo(bytes)}

\* A buffer leaves a handoff only by a receive of Request.
HandoffKeeps ==
    \A k \in Conns :
        (Len(chans[k].buf) > 0 /\ Len(chans'[k].buf) = 0)
            => conns'[k].taken = conns[k].taken + 1

\* C7: the server answering every request once and in order, the buffer a
\* successful Request returns is the oldest one not yet taken, the answer to
\* request number last.got and not to the request it is returned for when an
\* earlier request timed out; and a buffer completed after a timeout stays in
\* the handoff until a Request takes it.
C7_LateReplyGoesToNextRequest ==
    /\ [](Delivered /\ pc = "idle" /\ last.got > 0
            => /\ last.got <= last.req
               /\ last.buf \in AnswersTo(conns[last.conn].written[last.got]))
    /\ [][HandoffKeeps]_vars

\* A Request of the API user returned, with no error, the answer to the
\* PROTOCOLINFO request that had timed out inside Connect.
C7_Witness ==
    /\ pc = "idle"
    /\ last.op = "Request"
    /\ last.err = "nil"
    /\ last.req = 2
    /\ last.got = 1
    /\ last.buf \in AnswersTo("PROTOCOLINFO\r\n")
    /\ last.buf \notin AnswersTo(Normalize(NewRequest(ApiLine)))

\* A step in which a Request returns its timeout failure.
TimeoutReturns ==
    /\ pc = "wait"
    /\ pc' = "idle"
    /\ panic' = "none"
    /\ (last'.err = "timeout" \/ last'.authErr = "timeout")

\* C8: a Request that ends in a timeout failure leaves the session as it
\* was: the connection handle present and not closed, the connected and
\* authenticated flags, and the handoff channel not closed.
C8_TimeoutLeavesSessionUnchanged ==
    [][TimeoutReturns
         => /\ connection' = connection
            /\ connection' # 0
            /\ conns'[connection].state = conns[connection].state
            /\ conns'[connection].state # "closed"
            /\ isConnected' = isConnected
            /\ isAuthenticated' = isAuthenticated
            /\ in' = in
            /\ chans' = chans
            /\ ~chans'[in].closed]_vars

\* An API Request has just returned its timeout failure on a connected
\* session.
C8_Witness ==
    /\ pc = "idle"
    /\ last.op = "Request"
    /\ last.err = "timeout"
    /\ connection # 0
    /\ IsConnected
    /\ conns[connection].state = "open"


\* The steps in which the select of a waiting Request proceeds.
SelectProceeds ==
    \/ RequestReply
    \/ RequestTimeout
    \/ ConnectAuthenticated
    \/ ConnectProtocolInfoTimeout
    \/ ConnectAuthTimeout
    \/ \E readable \in BOOLEAN, w \in SendOutcomes :
          ConnectNegotiate(readable, w)

\* A Request has written its bytes and waits in its select.
Waiting == pc = "wait"

\* C9: a Request whose write succeeded terminates: while it waits, either
\* its timer is still to fire or its select can proceed and return.
C9_RequestTerminates ==
    Waiting => ENABLED (TimerFire \/ SelectProceeds)


\* ------------------------------------------------------------------------
\* The parser alone: a parser in its initial state, started on a connection
\* on which a reply of mid-reply lines and one end-reply line arrives, its
\* handoff channel empty.
\* ------------------------------------------------------------------------

\* The most mid-reply lines of a reply.
MaxMid == 2

\* Well-formed units: a 3-digit status, the separator, a payload, CRLF.
MidUnits == {"250-a\r\n", "250-\r\n"}
EndUnits == {"250 OK\r\n", "250 \r\n", "515 Bad\r\n"}

RECURSIVE SeqsUpTo(_, _)
SeqsUpTo(S, n) ==
    IF n = 0 THEN {<<>>}
    ELSE SeqsUpTo(S, n - 1)
           \cup {Append(s, x) : s \in {q \in SeqsUpTo(S, n - 1) : Len(q) = n - 1},
                                x \in S}

Streams == {m \o <<e>> : m \in SeqsUpTo(MidUnits, MaxMid), e \in EndUnits}

InitParser ==
    /\ connection = 1
    /\ isConnected = TRUE
    /\ isAuthenticated = FALSE
    /\ in = 1
    /\ authenticator = "nil"
    /\ stream \in Streams
    /\ outbound = NoSend
    /\ conns = [k \in Conns |->
                   IF k = 1 THEN [NoTransport EXCEPT !.state = "open",
                                                     !.wire = stream]
                   ELSE NoTransport]
    /\ chans = [k \in Conns |->
                   IF k = 1 THEN [NoChan EXCEPT !.made = TRUE] ELSE NoChan]
    /\ parsers = [k \in Conns |->
                     IF k = 1 THEN [pc |-> "read", p |-> NewParser]
                     ELSE NoParser]
    /\ pc = "idle"
    /\ stage = "none"
    /\ protoinfo = NewResponseBuffer
    /\ timer = "off"
    /\ last = NoCall
    /\ closer = "idle"
    /\ nreq = 0
    /\ nclose = 0
    /\ panic = "none"

NextParser ==
    \/ \E rd \in Reads(1) : ParserRead(1, rd)
    \/ ParserPost(1)
    \/ ServerHangup(1)

SpecParser == InitParser /\ [][NextParser]_vars

\* The units of s without their line ending.
Lines(s) == [i \in 1..Len(s) |-> TrimSuffix(s[i], "\r\n")]

\* The parser has read the whole stream and is back at its read.
Consumed ==
    /\ stream # <<>>
    /\ conns[1].wire = <<>>
    /\ conns[1].state = "open"
    /\ parsers[1].pc = "read"

\* C10: once a parser started in its initial state has read a well-formed
\* sequence of mid-reply lines and one end-reply line, it has emitted exactly
\* one buffer: its mid-reply lines are the input lines in order, it has no
\* data block, and its end-reply line is the terminating line.
C10_WellFormedReplyEmitted ==
    Consumed =>
        chans[1].buf =
            <<[MidReplyLines |-> Lines(SubSeq(stream, 1, Len(stream) - 1)),
               DataReplyLines |-> <<>>,
               EndReplyLine |-> Lines(stream)[Len(stream)]]>>


\* ------------------------------------------------------------------------
\* The parser alone on other streams: replies with a data block, and
\* messages with a malformed line before or between them.
\* ------------------------------------------------------------------------

\* The most body lines of a data block.
MaxBody == 2

\* Data-reply lines, body lines (one looks like a reply line, one is empty)
\* and the terminator of a data block.
DataUnits == {"250+info/names=\r\n", "250+\r\n"}
BodyUnits == {"foo Description\r\n", "250 OK\r\n", "\r\n"}
EndOfData == ".\r\n"

DataStreams ==
    {<<d>> \o b \o <<EndOfData, e>> :
        d \in DataUnits, b \in SeqsUpTo(BodyUnits, MaxBody), e \in EndUnits}

\* Lines whose first three characters are no integer status.
BadUnits == {"XYZ OK\r\n", "OK\r\n"}

\* Well-formed messages.
Messages ==
    {<<"250 OK\r\n">>,
     <<"250-a\r\n", "515 Bad\r\n">>,
     <<"250 \r\n">>,
     <<"250+d\r\n", "x\r\n", EndOfData, "250 OK\r\n">>}

\* A malformed line before a message, and between two messages.
DroppedStreams ==
    {<<x>> \o m : x \in BadUnits, m \in Messages}
      \cup {m \o <<x>> \o n : m \in Messages, x \in BadUnits, n \in Messages}

\* A parser in its initial state, started on a connection on which the
\* units of s arrive.
ParserStartedOn(s) ==
    /\ connection = 1
    /\ isConnected = TRUE
    /\ isAuthenticated = FALSE
    /\ in = 1
    /\ authenticator = "nil"
    /\ stream = s
    /\ outbound = NoSend
    /\ conns = [k \in Conns |->
                   IF k = 1 THEN [NoTransport EXCEPT !.state = "open",
                                                     !.wire = s]
                   ELSE NoTransport]
    /\ chans = [k \in Conns |->
                   IF k = 1 THEN [NoChan EXCEPT !.made = TRUE] ELSE NoChan]
    /\ parsers = [k \in Conns |->
                     IF k = 1 THEN [pc |-> "read", p |-> NewParser]
                     ELSE NoParser]
    /\ pc = "idle"
    /\ stage = "none"
    /\ protoinfo = NewResponseBuffer
    /\ timer = "off"
    /\ last = NoCall
    /\ closer = "idle"
    /\ nreq = 0
    /\ nclose = 0
    /\ panic = "none"

\* End-reply lines with statuses at and around the bounds of the failure
\* range, and with signed statuses, each a message of its own.
StatusUnits ==
    {"000 a\r\n", "299 a\r\n", "300 a\r\n", "301 a\r\n", "599 a\r\n",
     "600 a\r\n", "999 a\r\n", "-12 a\r\n", "+25 a\r\n"}

StatusStreams == {<<u>> : u \in StatusUnits}

InitStreams ==
    \E s \in DataStreams \cup DroppedStreams \cup StatusStreams :
        ParserStartedOn(s)

SpecStreams == InitStreams /\ [][NextParser]_vars

\* The buffers the parser of connection 1 has emitted: the one in the
\* handoff slot and, behind it, the one its blocked send holds.
EmittedSoFar ==
    chans[1].buf \o (IF parsers[1].pc = "post" THEN <<parsers[1].p.buffer>>
                     ELSE <<>>)

\* The parser has read the whole stream: it is back at its read, or blocked
\* in the send of a second buffer.
Settled ==
    /\ stream # <<>>
    /\ conns[1].wire = <<>>
    /\ conns[1].state = "open"
    /\ \/ parsers[1].pc = "read"
       \/ parsers[1].pc = "post" /\ Len(chans[1].buf) = 1

\* The data block of a stream of DataStreams: the data-reply line and the
\* body lines, without the terminator.
DataBlock(s) == Lines(SubSeq(s, 1, Len(s) - 2))

\* C11: for a data-reply line, N body lines, the terminator and an end-reply
\* line, the one buffer emitted has no mid-reply line and exactly one data
\* block, the data-reply line with the N body lines in order and without the
\* terminator; and once the terminator is read the parser is in READY with
\* that block in its buffer.
C11_DataBlockEmitted ==
    stream \in DataStreams =>
        /\ Settled =>
              EmittedSoFar =
                  <<[MidReplyLines |-> <<>>,
                     DataReplyLines |-> <<DataBlock(stream)>>,
                     EndReplyLine |-> Lines(stream)[Len(stream)]]>>
        /\ (Len(conns[1].wire) = 1 /\ parsers[1].pc = "read") =>
              /\ parsers[1].p.isReady
              /\ ~parsers[1].p.isMultiLine
              /\ parsers[1].p.buffer.DataReplyLines = <<DataBlock(stream)>>


\* The units of s that are no malformed line.
WithoutBad(s) == SelectSeq(s, LAMBDA u : u \notin BadUnits)

\* C12: a line with a non-numeric status before a message or between two
\* messages does not end the loop of the parser, and the buffers emitted
\* are those the parser emits for the stream without that line.
C12_MalformedLineDropped ==
    stream \in DroppedStreams =>
        /\ panic = "none"
        /\ parsers[1].pc = "exit" => conns[1].state # "open"
        /\ Settled => EmittedSoFar = Emitted(NewParser, WithoutBad(stream))

\* The parser has read a message, a malformed line and a second message,
\* and has emitted the two messages.
C12_Witness ==
    /\ stream = <<"250 OK\r\n", "XYZ OK\r\n", "250-a\r\n", "515 Bad\r\n">>
    /\ Settled
    /\ EmittedSoFar =
          <<[MidReplyLines |-> <<>>, DataReplyLines |-> <<>>,
             EndReplyLine |-> "250 OK"],
            [MidReplyLines |-> <<"250-a">>, DataReplyLines |-> <<>>,
             EndReplyLine |-> "515 Bad"]>>


\* ------------------------------------------------------------------------
\* Claims about Close, Connect and Request on a session in any state.
\* ------------------------------------------------------------------------

\* C13: Close on an open session closes the transport, drops the connection
\* handle and resets the connected and authenticated flags; Close on a
\* session with no connection (a second Close, or a Close before any
\* Connect) changes nothing; and neither crashes.
C13_CloseIdempotent ==
    [][Close =>
         /\ panic' = "none"
         /\ IF connection # 0
            THEN /\ conns'[connection].state = "closed"
                 /\ connection' = 0
                 /\ ~isConnected'
                 /\ ~isAuthenticated'
            ELSE UNCHANGED <<controllerVars, conns, chans, parsers>>]_vars

\* Close has returned for the second time in a row on a session that had
\* been connected: the session is as the first Close left it.
C13_Witness ==
    /\ pc = "idle"
    /\ panic = "none"
    /\ last.op = "Close"
    /\ last.conn = 0
    /\ Dialed = 1
    /\ conns[1].state = "closed"
    /\ connection = 0
    /\ ~isConnected

\* C14: Connect on a session that is already connected returns no error and
\* has no effect: no transport is dialed or written, no parser started, no
\* channel replaced, and the flags and the authenticator are unchanged.
C14_ConnectWhenConnected ==
    [][((\E dialOk \in BOOLEAN, w \in {"ok", "err"} : Connect(dialOk, w))
          /\ isConnected)
         => /\ UNCHANGED <<controllerVars, conns, chans, parsers, stage, timer>>
            /\ pc' = "idle"
            /\ panic' = "none"
            /\ last'.op = "Connect"
            /\ last'.err = "nil"]_vars

\* Connect has just returned at once on a connected session.
C14_Witness ==
    /\ pc = "idle"
    /\ isConnected
    /\ connection # 0
    /\ last = Returned("Connect", "nil", "none", NewResponseBuffer,
                       connection, 0, 0)

\* C15: a Request on a session with no connection returns an error to the
\* caller and does not crash.
C15_RequestWithoutConnection ==
    [][((\E w \in SendOutcomes : Request(w)) /\ connection = 0)
         => /\ panic' = "none"
            /\ last'.op = "Request"
            /\ last'.err # "nil"]_vars


\* ------------------------------------------------------------------------
\* The parser of a connected session and the Close of the caller, under
\* fair scheduling of the parser goroutine: a read that can return returns,
\* and a send that can proceed proceeds.
\* ------------------------------------------------------------------------

InitShutdown == \E s \in Streams : ParserStartedOn(s)

NextShutdown ==
    \/ NextParser
    \/ Close

SpecShutdown ==
    /\ InitShutdown
    /\ [][NextShutdown]_vars
    /\ WF_vars(\E rd \in Reads(1) : ParserRead(1, rd))
    /\ WF_vars(ParserPost(1))

\* C16: once Close has closed the transport, the parser goroutine of the
\* connection eventually leaves its read loop.
C16_ParserStopsAfterClose ==
    (conns[1].state = "closed") ~> (parsers[1].pc = "exit")


\* A step of a parser goroutine.
ParserStep ==
    \/ \E k \in Conns : \E rd \in Reads(k) : ParserRead(k, rd)
    \/ \E k \in Conns : ParserPost(k)

\* A step of Connect (the authenticator it runs included) or of Close.
ConnectOrCloseStep ==
    \/ \E dialOk \in BOOLEAN, w \in {"ok", "err"} : Connect(dialOk, w)
    \/ \E readable \in BOOLEAN, w \in SendOutcomes :
          ConnectNegotiate(readable, w)
    \/ ConnectAuthenticated
    \/ Close

\* C17: no step of a parser goroutine changes the connection handle, the
\* connected flag, the authenticated flag or the authenticator of the
\* session; they change only in steps of Connect, of the authenticator it
\* runs, and of Close.
C17_ParserLeavesSessionFields ==
    /\ [][ParserStep
            => UNCHANGED <<connection, isConnected, isAuthenticated,
                           authenticator>>]_vars
    /\ [][<<connection, isConnected, isAuthenticated, authenticator>>'
              # <<connection, isConnected, isAuthenticated, authenticator>>
            => ConnectOrCloseStep]_vars

\* The parser of an authenticated session has read a reply to the end,
\* after the server closed its end, and has left its loop.
C17_Witness ==
    /\ connection # 0
    /\ isConnected
    /\ isAuthenticated
    /\ authenticator # "nil"
    /\ conns[connection].state = "eof"
    /\ parsers[connection].pc = "exit"


\* ------------------------------------------------------------------------
\* Claims about the status of a reply and about outbound bytes.
\* ------------------------------------------------------------------------

\* C18: for the status s of every buffer the parser emits, and for the
\* status -1 of a buffer with no parsable end-reply line, IsSuccess is false
\* if and only if 300 <= s <= 599.
C18_IsSuccessRange ==
    /\ \A i \in 1..Len(EmittedSoFar) :
          IsSuccess(EmittedSoFar[i]) <=> Status(EmittedSoFar[i]) \notin 300..599
    /\ Status(NewResponseBuffer) = -1
    /\ IsSuccess(NewResponseBuffer)

\* The parser has emitted a reply whose status is the lower bound of the
\* failure range, and it is no success.
C18_Witness ==
    /\ stream \in StatusStreams
    /\ Len(chans[1].buf) = 1
    /\ Status(chans[1].buf[1]) = 300
    /\ ~IsSuccess(chans[1].buf[1])


\* ------------------------------------------------------------------------
\* SendMessage alone: the user of a connected session calls SendMessage
\* with a LineBuffer of its own.
\* ------------------------------------------------------------------------

\* The most characters of a line, and the most lines of a LineBuffer.
MaxLineLen == 3
MaxLines == 2

\* The characters of outbound lines: a letter, CR and LF.
Chars == {"a", "\r", "\n"}

RECURSIVE StringsUpTo(_)
StringsUpTo(n) ==
    IF n = 0 THEN {""}
    ELSE StringsUpTo(n - 1)
           \cup {s \o c : s \in {q \in StringsUpTo(n - 1) : Len(q) = n - 1},
                          c \in Chars}

LineBuffers == SeqsUpTo(StringsUpTo(MaxLineLen), MaxLines)

InitSend ==
    /\ connection = 1
    /\ isConnected = TRUE
    /\ isAuthenticated = FALSE
    /\ in = 1
    /\ authenticator = "nil"
    /\ stream = <<>>
    /\ outbound \in {[buffer |-> b, pending |-> TRUE] : b \in LineBuffers}
    /\ conns = [k \in Conns |->
                   IF k = 1 THEN [NoTransport EXCEPT !.state = "open"]
                   ELSE NoTransport]
    /\ chans = [k \in Conns |->
                   IF k = 1 THEN [NoChan EXCEPT !.made = TRUE] ELSE NoChan]
    /\ parsers = [k \in Conns |->
                     IF k = 1 THEN [pc |-> "read", p |-> NewParser]
                     ELSE NoParser]
    /\ pc = "idle"
    /\ stage = "none"
    /\ protoinfo = NewResponseBuffer
    /\ timer = "off"
    /\ last = NoCall
    /\ closer = "idle"
    /\ nreq = 0
    /\ nclose = 0
    /\ panic = "none"

\* Controller.SendMessage called by the user with the buffer outbound; w is
\* what the write does.
SendMessage(w) ==
    /\ pc = "idle"
    /\ panic = "none"
    /\ outbound.pending
    /\ outbound' = [outbound EXCEPT !.pending = FALSE]
    /\ IF w = "panic"
       THEN /\ panic' = "nil pointer dereference"
            /\ UNCHANGED <<conns, last>>
       ELSE IF w = "err"
       THEN /\ last' = Returned("SendMessage", "write", "none",
                                NewResponseBuffer, connection, 0, 0)
            /\ UNCHANGED <<conns, panic>>
       ELSE /\ conns' = AfterWrite(outbound.buffer)
            /\ last' = Returned("SendMessage", "nil", "none",
                                NewResponseBuffer, connection,
                                Len(conns[connection].written) + 1, 0)
            /\ UNCHANGED panic
    /\ UNCHANGED <<controllerVars, chans, parsers, pc, stage, protoinfo,
                   timer, closer, nreq, nclose, stream>>

NextSend ==
    \/ \E w \in SendOutcomes : SendMessage(w)
    \/ ServerHangup(1)

SpecSend == InitSend /\ [][NextSend]_vars

\* SendMessage has written the bytes of outbound.buffer; Sent is what it
\* wrote.
HasSent ==
    /\ ~outbound.pending
    /\ last.op = "SendMessage"
    /\ last.err = "nil"

Sent == conns[last.conn].written[last.req]

\* s has no LF that is not immediately preceded by CR.
NoBareLF(s) ==
    \A i \in 1..Len(s) : At(s, i) = "\n" => (i > 1 /\ At(s, i - 1) = "\r")

RECURSIVE Concat(_)
Concat(b) == IF b = <<>> THEN "" ELSE Head(b) \o Concat(Tail(b))

\* Every line of b ends with CRLF and has no bare LF.
Terminated(b) ==
    \A i \in 1..Len(b) : HasSuffix(b[i], "\r\n") /\ NoBareLF(b[i])

\* C19, as stated: the bytes of a buffer whose lines are CRLF-terminated
\* with no bare LF are the lines unchanged, and for every buffer b,
\* normalizing the one-line buffer made of Normalize(b) yields Normalize(b).
C19_NormalizeIdempotent ==
    HasSent =>
        /\ Terminated(outbound.buffer) => Sent = Concat(outbound.buffer)
        /\ Normalize(<<Sent>>) = Sent

\* C19, amended: the same, the second part for every buffer b that has at
\* least one line.
C19_NormalizeIdempotentNonEmpty ==
    HasSent =>
        /\ Terminated(outbound.buffer) => Sent = Concat(outbound.buffer)
        /\ outbound.buffer # <<>> => Normalize(<<Sent>>) = Sent

\* SendMessage has written a buffer of two CRLF-terminated lines unchanged,
\* and what it wrote normalizes to itself.
C19_Witness ==
    /\ HasSent
    /\ outbound.buffer = <<"a\r\n", "\r\n">>
    /\ Sent = "a\r\n\r\n"
    /\ Normalize(<<Sent>>) = Sent

\* C20: the bytes SendMessage writes have no LF that is not immediately
\* preceded by CR, and they are the bytes of the lines of the buffer in
\* order, those of each line ending with CRLF: none for an empty buffer,
\* CRLF alone for an empty line.
C20_OutboundLinesEndWithCRLF ==
    HasSent =>
        LET b == outbound.buffer
            bytes == [i \in 1..Len(b) |-> NormalizeLine(b[i])]
        IN  /\ NoBareLF(Sent)
            /\ Sent = Concat(bytes)
            /\ \A i \in 1..Len(b) :
                  /\ HasSuffix(bytes[i], "\r\n")
                  /\ b[i] = "" => bytes[i] = "\r\n"
            /\ b = <<>> => Sent = ""

\* SendMessage has written a buffer with an empty line and a line with a
\* bare LF and no line ending.
C20_Witness ==
    /\ HasSent
    /\ outbound.buffer = <<"", "a\na">>
    /\ Sent = "\r\na\r\na\r\n"


\* ------------------------------------------------------------------------
\* Claims about the strategies that fail before sending.
\* ------------------------------------------------------------------------

\* The PROTOCOLINFO reply buf advertises SAFECOOKIE and nothing else.
OnlySafeCookie(buf) == ~AuthPanics(buf) /\ AuthMethods(buf) = <<"SAFECOOKIE">>

\* C21: Authenticate of the safe-cookie strategy returns the NotImplemented
\* error, writes no request and leaves the authenticated flag as it was; and
\* a Connect whose PROTOCOLINFO reply advertises only SAFECOOKIE selects no
\* strategy and returns the no-compatible-method error.
C21_SafeCookieNotImplemented ==
    /\ [][CallSafeCookieAuthenticate =>
             /\ last'.err = "notimplemented"
             /\ UNCHANGED <<conns, isAuthenticated>>]_vars
    /\ [](Negotiated => ~OnlySafeCookie(protoinfo))
    /\ []((ConnectReturned /\ last.got # 0 /\ OnlySafeCookie(last.buf))
             => last.err = "nocompat")


\* ------------------------------------------------------------------------
\* The parser alone on streams with an offending unit: a parser in its
\* initial state reads what a message in progress consists of, then a unit
\* that is malformed or ends the message, then what follows.
\* ------------------------------------------------------------------------

\* What the parser has accumulated when the offending unit arrives: nothing,
\* a mid-reply line, a data block, both, or an open data block.
Prefixes ==
    {<<>>,
     <<"250-a\r\n">>,
     <<"250+d\r\n", "x\r\n", EndOfData>>,
     <<"250-a\r\n", "250+d\r\n", "x\r\n", EndOfData>>,
     <<"250+d\r\n", "x\r\n">>}

\* End-reply lines, with a status text and without.
ShortEndUnits == {"250 OK\r\n", "250 \r\n", "515 \r\n"}

\* Lines with a 3-digit status and a fourth character that is no separator.
OtherUnits == {"250*x\r\n", "250x\r\n"}

\* Units that end in LF but not in CRLF.
BareLFUnits == {"250 OK\n", "250-a\n", ".\n", "\n"}

\* What is left of a line when the stream ends inside it.
PartialUnits == {"250 O", "250-a\r"}

Suffixes == {<<>>, <<"250 OK\r\n">>, <<"250-b\r\n", "515 Bad\r\n">>}

FramingStreams ==
    {a \o <<u>> \o b :
        a \in Prefixes,
        u \in BadUnits \cup ShortEndUnits \cup OtherUnits \cup BareLFUnits,
        b \in Suffixes}
      \cup {a \o <<u>> : a \in Prefixes, u \in PartialUnits}

InitFraming == \E s \in FramingStreams : ParserStartedOn(s)

SpecFraming == InitFraming /\ [][NextParser]_vars

\* The parser of connection 1 reads the next unit of the stream, with no
\* error: one iteration of the loop of Run.
ReadsUnit ==
    /\ conns[1].wire # <<>>
    /\ ParserRead(1, [ln |-> Head(conns[1].wire), e |-> "nil"])

\* The line of that unit, without its line ending.
UnitLine == TrimSuffix(Head(conns[1].wire), "\r\n")

\* The parser of connection 1 has something of a message in its buffer.
InProgress ==
    \/ parsers[1].p.buffer.MidReplyLines # <<>>
    \/ parsers[1].p.buffer.DataReplyLines # <<>>

\* Whether the first three characters of ln parse as an integer.
HasStatus(ln) == Len(ln) >= 3 /\ Atoi(SubSeq(ln, 1, 3)).ok

\* The step emits nothing.
NothingEmitted == parsers'[1].pc = "read" /\ UNCHANGED chans

\* C22: when the parser, in READY with mid-reply lines or data blocks in its
\* buffer, reads a CRLF-terminated line whose first three characters do not
\* parse as an integer, the buffer and the state flags are unchanged and
\* nothing is emitted; and the buffers emitted for a stream with such a line
\* inside a message are those emitted for the stream without it.
C22_MalformedLineKeepsBuffer ==
    /\ [][(/\ ReadsUnit
           /\ parsers[1].p.isReady
           /\ InProgress
           /\ HasSuffix(Head(conns[1].wire), "\r\n")
           /\ ~HasStatus(UnitLine))
             => /\ NothingEmitted
                /\ parsers'[1].p.buffer = parsers[1].p.buffer
                /\ parsers'[1].p.isReady = parsers[1].p.isReady
                /\ parsers'[1].p.isMultiLine = parsers[1].p.isMultiLine]_vars
    /\ []((Settled /\ WithoutBad(stream) # stream)
             => EmittedSoFar = Emitted(NewParser, WithoutBad(stream)))


\* The step hands the buffer, completed by the line read, to Parser.post.
CompletesWith(ln) ==
    /\ parsers'[1].pc = "post"
    /\ parsers'[1].p.buffer =
          [parsers[1].p.buffer EXCEPT !.EndReplyLine = ln]

\* C23: in READY, a line whose first three characters parse as a status and
\* whose fourth character is a space completes the buffer whatever the
\* length of its text; the buffer is then emitted and the parser goes on in
\* READY with a fresh buffer.
C23_EndReplyLineOfAnyLength ==
    /\ [][(/\ ReadsUnit
           /\ parsers[1].p.isReady
           /\ HasSuffix(Head(conns[1].wire), "\r\n")
           /\ HasStatus(UnitLine)
           /\ Len(UnitLine) >= 4
           /\ At(UnitLine, 4) = " ")
             => CompletesWith(UnitLine)]_vars
    /\ [][(ParserPost(1) /\ panic' = "none")
             => /\ chans'[1].buf = <<parsers[1].p.buffer>>
                /\ parsers'[1] = [pc |-> "read", p |-> Reset(parsers[1].p)]
                /\ parsers'[1].p.isReady]_vars


\* Whether the first three characters of ln are digits.
ThreeDigits(ln) == Len(ln) >= 3 /\ \A i \in 1..3 : IsDigit(At(ln, i))

\* C24: in READY, a line with a 3-digit status whose fourth character is
\* none of ' ', '-', '+' resets the buffer in progress: its mid-reply lines
\* and data blocks are discarded, nothing is emitted, the parser stays in
\* READY and goes on reading, and the connection is not closed.
C24_UnknownSeparatorResets ==
    [][(/\ ReadsUnit
        /\ parsers[1].p.isReady
        /\ HasSuffix(Head(conns[1].wire), "\r\n")
        /\ ThreeDigits(UnitLine)
        /\ Len(UnitLine) >= 4
        /\ At(UnitLine, 4) \notin {" ", "-", "+"})
          => /\ NothingEmitted
             /\ parsers'[1].p.buffer = NewResponseBuffer
             /\ parsers'[1].p.bufferRaw = <<>>
             /\ parsers'[1].p.isReady
             /\ ~parsers'[1].p.isMultiLine
             /\ conns'[1].state = conns[1].state
             /\ panic' = "none"]_vars

\* The parser has read a mid-reply line, a line with an unknown separator
\* and an end-reply line, and has emitted the end-reply line alone.
C24_Witness ==
    /\ stream = <<"250-a\r\n", "250*x\r\n", "250 OK\r\n">>
    /\ Settled
    /\ conns[1].state = "open"
    /\ EmittedSoFar =
          <<[MidReplyLines |-> <<>>, DataReplyLines |-> <<>>,
             EndReplyLine |-> "250 OK"]>>

\* C25: a unit that ends in LF but not in CRLF is dropped in READY and in a
\* data block alike: the buffer, the open data block and the state flags are
\* unchanged, nothing is emitted and the parser goes on reading.
C25_BareLFUnitDropped ==
    [][(/\ ReadsUnit
        /\ HasSuffix(Head(conns[1].wire), "\n")
        /\ ~HasSuffix(Head(conns[1].wire), "\r\n"))
          => /\ NothingEmitted
             /\ parsers'[1].p = parsers[1].p
             /\ panic' = "none"]_vars

\* The parser, inside a data block, has read the terminator with a bare LF:
\* the block is still open and has the body line alone.
C25_Witness ==
    /\ stream = <<"250+d\r\n", "x\r\n", ".\n">>
    /\ conns[1].wire = <<>>
    /\ parsers[1].pc = "read"
    /\ parsers[1].p.isMultiLine
    /\ ~parsers[1].p.isReady
    /\ parsers[1].p.dataReplyLine = <<"250+d", "x">>
    /\ parsers[1].p.buffer = NewResponseBuffer
    /\ chans[1].buf = <<>>

\* C26: when a read returns the end of the stream the loop of the parser
\* ends and nothing is emitted, whatever was in progress; and a parser that
\* has left its loop emits nothing any more.
C26_EndOfStreamEmitsNothing ==
    /\ [][(\E rd \in Reads(1) : rd.e = "EOF" /\ ParserRead(1, rd))
             => /\ parsers'[1].pc = "exit"
                /\ UNCHANGED chans]_vars
    /\ [][parsers[1].pc = "exit"
             => /\ parsers'[1].pc = "exit"
                /\ UNCHANGED chans]_vars

\* The stream has ended inside the end-reply line of a message with a
\* mid-reply line: the parser has left its loop and nothing was emitted.
C26_Witness ==
    /\ stream = <<"250-a\r\n", "250 O">>
    /\ conns[1].state = "eof"
    /\ conns[1].wire = <<>>
    /\ parsers[1].pc = "exit"
    /\ chans[1].buf = <<>>


\* ------------------------------------------------------------------------
\* Claims about the order of the steps of Connect.
\* ------------------------------------------------------------------------

\* How many AUTHENTICATE requests were written on a connection whose
\* requests are w.
RECURSIVE CountAuthenticate(_)
CountAuthenticate(w) ==
    IF w = <<>> THEN 0
    ELSE (IF HasPrefix(Head(w), "AUTHENTICATE") THEN 1 ELSE 0)
           + CountAuthenticate(Tail(w))

\* Connect called on a session that is not connected.
ConnectUnconnected ==
    /\ ~IsConnected
    /\ \E dialOk \in BOOLEAN, w \in {"ok", "err"} : Connect(dialOk, w)

\* C27: Connect on an unconnected session dials, then starts the parser,
\* then writes PROTOCOLINFO, and writes an AUTHENTICATE request, one at
\* most, only once it has received a reply to PROTOCOLINFO; when the dial
\* fails nothing is written and no parser is started, and when the
\* PROTOCOLINFO request fails or times out no AUTHENTICATE request is
\* written.
C27_ConnectStepsInOrder ==
    /\ [][ConnectUnconnected =>
             IF last'.err = "dial"
             THEN UNCHANGED <<conns, chans, parsers>>
             ELSE /\ conns[connection'].state = "none"
                  /\ parsers[connection'].pc = "none"
                  /\ conns'[connection'].state = "open"
                  /\ parsers'[connection'].pc = "read"
                  /\ conns'[connection'].written \in
                        {<<>>, <<"PROTOCOLINFO\r\n">>}
                  /\ last'.err = "write" <=> conns'[connection'].written = <<>>
          ]_vars
    /\ [][(\E k \in Conns : CountAuthenticate(conns'[k].written)
                               > CountAuthenticate(conns[k].written))
             => /\ stage = "protocolinfo"
                /\ RecvReady
                /\ Len(chans[in].buf) > 0
                /\ stage' = "auth"
                /\ conns'[in].taken = 1
                /\ conns'[in].written =
                      Append(conns[in].written, Normalize(NewRequest(
                          AuthenticateLine(authenticator'))))]_vars
    /\ [](\A k \in Conns : CountAuthenticate(conns[k].written) <= 1)
    /\ [](stage = "protocolinfo" => conns[in].written = <<"PROTOCOLINFO\r\n">>)
    /\ []((ConnectReturned /\ last.authErr = "none"
             /\ last.err \in {"dial", "write", "timeout"})
            => \A k \in Conns : last.conn = k => ~WroteAuthenticate(k))

\* Connect has returned with no error from a session on which it wrote
\* PROTOCOLINFO and then one AUTHENTICATE request, each answered.
C27_Witness ==
    /\ ConnectReturned
    /\ last.err = "nil"
    /\ parsers[connection].pc = "read"
    /\ conns[connection].written = <<"PROTOCOLINFO\r\n", "AUTHENTICATE\r\n">>
    /\ conns[connection].taken = 2


\* Connect receives the reply to PROTOCOLINFO, selects the cookie strategy,
\* and the cookie file cannot be read.
CookieUnreadable ==
    /\ stage = "protocolinfo"
    /\ RecvReady
    /\ ~AuthPanics(RecvValue)
    /\ authenticator' = "COOKIE"
    /\ \E w \in SendOutcomes : ConnectNegotiate(FALSE, w)

\* C28: when the cookie strategy is selected and the cookie file cannot be
\* read, Authenticate returns the read error, no AUTHENTICATE request is
\* written, the authenticated flag stays false and Connect returns an error.
C28_UnreadableCookieFails ==
    /\ [][CookieUnreadable =>
             /\ last'.op = "Connect"
             /\ last'.authErr = "read"
             /\ last'.err # "nil"
             /\ pc' = "idle"
             /\ conns'[connection].written = conns[connection].written
             /\ ~isAuthenticated'
             /\ panic' = "none"]_vars
    /\ []((ConnectReturned /\ last.authErr = "read")
             => /\ last.err # "nil"
                /\ ~IsAuthenticated
                /\ ~WroteAuthenticate(last.conn))

\* Connect has returned an error after the cookie file named by the reply
\* to PROTOCOLINFO could not be read, having written PROTOCOLINFO alone.
C28_Witness ==
    /\ ConnectReturned
    /\ last.authErr = "read"
    /\ last.err = "authfailed"
    /\ authenticator = "COOKIE"
    /\ AuthCookieFile(last.buf) = "/c"
    /\ conns[last.conn].written = <<"PROTOCOLINFO\r\n">>
    /\ ~IsAuthenticated


\* ------------------------------------------------------------------------
\* Claims about the handoff between the parser and the session.
\* ------------------------------------------------------------------------

\* C29: the parser never sends a completed buffer on a handoff channel that
\* Close has closed: no parser is in the send of post with its channel
\* closed, and the process does not end with a send on a closed channel.
C29_NoSendOnClosedChannel ==
    /\ \A k \in Conns : ~(parsers[k].pc = "post" /\ chans[k].closed)
    /\ panic # "send on closed channel"


\* The handoff alone: a connected session whose user waits in the select of
\* a Request, the parser started on a stream of messages.

\* The most messages of a stream.
MaxMessages == 3

RECURSIVE Flatten(_)
Flatten(ss) == IF ss = <<>> THEN <<>> ELSE Head(ss) \o Flatten(Tail(ss))

HandoffStreams == {Flatten(ms) : ms \in SeqsUpTo(Messages, MaxMessages)}

InitHandoff ==
    /\ connection = 1
    /\ isConnected = TRUE
    /\ isAuthenticated = FALSE
    /\ in = 1
    /\ authenticator = "nil"
    /\ stream \in HandoffStreams
    /\ outbound = NoSend
    /\ conns = [k \in Conns |->
                   IF k = 1
                   THEN [NoTransport EXCEPT
                            !.state = "open",
                            !.wire = stream,
                            !.written = <<Normalize(NewRequest(ApiLine))>>]
                   ELSE NoTransport]
    /\ chans = [k \in Conns |->
                   IF k = 1 THEN [NoChan EXCEPT !.made = TRUE] ELSE NoChan]
    /\ parsers = [k \in Conns |->
                     IF k = 1 THEN [pc |-> "read", p |-> NewParser]
                     ELSE NoParser]
    /\ pc = "wait"
    /\ stage = "api"
    /\ protoinfo = NewResponseBuffer
    /\ timer = "armed"
    /\ last = NoCall
    /\ closer = "idle"
    /\ nreq = 0
    /\ nclose = 0
    /\ panic = "none"

NextHandoff ==
    \/ \E rd \in Reads(1) : ParserRead(1, rd)
    \/ ParserPost(1)
    \/ \E w \in SendOutcomes : Request(w)
    \/ RequestReply
    \/ RequestTimeout
    \/ TimerFire
    \/ Close
    \/ ServerHangup(1)

SpecHandoff == InitHandoff /\ [][NextHandoff]_vars

\* The buffers the messages of the stream parse to, in order.
Completed == Emitted(NewParser, stream)

\* The slot of the handoff of connection 1 changes only by a send of the
\* parser into the empty slot or by a receive of Request that returns the
\* buffer it held.
SlotStep ==
    chans'[1].buf # chans[1].buf =>
        \/ /\ chans[1].buf = <<>>
           /\ parsers[1].pc = "post"
           /\ chans'[1].buf = <<parsers[1].p.buffer>>
        \/ /\ chans'[1].buf = <<>>
           /\ pc = "wait"
           /\ pc' = "idle"
           /\ last'.err = "nil"
           /\ last'.buf = chans[1].buf[1]
           /\ conns'[1].taken = conns[1].taken + 1

\* A parser blocked in its send on the full slot stays there and reads
\* nothing.
BlockedStep ==
    (parsers[1].pc = "post" /\ Len(chans[1].buf) = 1 /\ ~chans[1].closed)
        => /\ parsers'[1] = parsers[1]
           /\ conns'[1].wire = conns[1].wire

\* C30: the handoff holds one buffer at most; a completed buffer is never
\* overwritten or dropped, the parser staying in its send and reading
\* nothing while the slot is full; and the buffers successive Request calls
\* take are the buffers the parser completed, in that order.
C30_HandoffLosslessInOrder ==
    /\ [](\A k \in Conns : Len(chans[k].buf) <= 1)
    /\ [][SlotStep]_vars
    /\ [][BlockedStep]_vars
    /\ [](conns[1].state # "closed" =>
            LET taken == conns[1].taken
                held == taken + Len(chans[1].buf)
            IN  /\ held <= Len(Completed)
                /\ chans[1].buf # <<>> => chans[1].buf[1] = Completed[held]
                /\ parsers[1].pc = "post" =>
                      /\ held < Len(Completed)
                      /\ parsers[1].p.buffer = Completed[held + 1]
                /\ (pc = "idle" /\ last.op = "Request" /\ last.err = "nil") =>
                      /\ last.got = taken
                      /\ last.got > 0
                      /\ last.buf = Completed[last.got])

\* Two Request calls have taken the first two of three buffers, in order,
\* and the third is in the slot.
C30_Witness ==
    /\ stream = <<"250-a\r\n", "515 Bad\r\n", "250 OK\r\n",
                  "250+d\r\n", "x\r\n", EndOfData, "250 OK\r\n">>
    /\ pc = "idle"
    /\ last.op = "Request"
    /\ last.err = "nil"
    /\ last.got = 2
    /\ last.buf = [MidReplyLines |-> <<>>, DataReplyLines |-> <<>>,
                   EndReplyLine |-> "250 OK"]
    /\ chans[1].buf = <<[MidReplyLines |-> <<>>,
                         DataReplyLines |-> <<<<"250+d", "x">>>>,
                         EndReplyLine |-> "250 OK"]>>


\* ------------------------------------------------------------------------
\* Claims about the buffer in progress and the state flags of the parser.
\* ------------------------------------------------------------------------

\* The lines a buffer holds: its mid-reply lines, the lines of its data
\* blocks and its end-reply line.
BufferLines(buf) ==
    buf.MidReplyLines \o Flatten(buf.DataReplyLines)
        \o (IF buf.EndReplyLine = "" THEN <<>> ELSE <<buf.EndReplyLine>>)

\* How many times x occurs in s.
Count(x, s) == Cardinality({i \in 1..Len(s) : s[i] = x})

\* a and b hold the same lines, each as many times.
SameLines(a, b) ==
    \A x \in {a[i] : i \in 1..Len(a)} \cup {b[i] : i \in 1..Len(b)} :
        Count(x, a) = Count(x, b)

\* The lines of raw without the terminators of data blocks.
Accepted(raw) == SelectSeq(raw, LAMBDA l : ~isEndOfData(l))

\* The lines of the first n buffers of bufs.
RECURSIVE LinesOfFirst(_, _)
LinesOfFirst(bufs, n) ==
    IF n = 0 THEN <<>>
    ELSE LinesOfFirst(bufs, n - 1) \o BufferLines(bufs[n])

\* How many buffers the parser of connection 1 has completed.
CompletedSoFar ==
    conns[1].taken + Len(chans[1].buf)
        + (IF parsers[1].pc = "post" THEN 1 ELSE 0)

\* The lines of the units the parser of connection 1 has read.
LinesRead == Lines(SubSeq(stream, 1, Len(stream) - Len(conns[1].wire)))

\* C31: right after an emission the buffer in progress has no mid-reply
\* line, no data block and no end-reply line; a buffer that is emitted holds
\* exactly the lines accepted since the previous emission or reset; and no
\* line read appears in more emitted buffers than it was read times.
C31_MessagesDoNotLeak ==
    /\ [][(ParserPost(1) /\ panic' = "none")
             => /\ parsers'[1].p.buffer = NewResponseBuffer
                /\ parsers'[1].p.bufferRaw = <<>>
                /\ chans'[1].buf = <<parsers[1].p.buffer>>]_vars
    /\ [](parsers[1].pc = "post"
             => SameLines(BufferLines(parsers[1].p.buffer),
                          Accepted(parsers[1].p.bufferRaw)))
    /\ [](conns[1].state # "closed"
             => LET out == LinesOfFirst(Completed, CompletedSoFar)
                IN  \A i \in 1..Len(out) :
                        Count(out[i], out) <= Count(out[i], LinesRead))

\* The parser has emitted a reply with a mid-reply line, which a Request
\* took, and then a reply with a data block, which is in the slot without
\* that mid-reply line; its buffer in progress is empty.
C31_Witness ==
    /\ stream = <<"250-a\r\n", "515 Bad\r\n",
                  "250+d\r\n", "x\r\n", EndOfData, "250 OK\r\n">>
    /\ conns[1].taken = 1
    /\ last.buf = [MidReplyLines |-> <<"250-a">>, DataReplyLines |-> <<>>,
                   EndReplyLine |-> "515 Bad"]
    /\ chans[1].buf = <<[MidReplyLines |-> <<>>,
                         DataReplyLines |-> <<<<"250+d", "x">>>>,
                         EndReplyLine |-> "250 OK"]>>
    /\ parsers[1].pc = "read"
    /\ parsers[1].p.buffer = NewResponseBuffer


\* ------------------------------------------------------------------------
\* Claims about a session that is connected again.
\* ------------------------------------------------------------------------

\* Connect called on a session that is not connected, the dial succeeding.
ConnectDials == ConnectUnconnected /\ last'.err # "dial"

\* A receive of Request on connection k: one more buffer was taken from its
\* channel.
Takes(k) == conns'[k].taken > conns[k].taken

\* C32: a Connect that dials installs a channel and a parser that no
\* earlier connection used; the select of a Request is on the channel of the
\* connection dialed last; and a buffer is taken only from that channel: one
\* left in the channel of an earlier connection, or posted to it late, stays
\* there and no Request returns it.
C32_NoBufferFromPreviousConnection ==
    /\ [][ConnectDials =>
             /\ in' = connection'
             /\ in' = Dialed + 1
             /\ ~chans[in'].made
             /\ parsers[in'].pc = "none"
             /\ chans'[in'] = [made |-> TRUE, buf |-> <<>>, closed |-> FALSE]
             /\ parsers'[in'] = [pc |-> "read", p |-> NewParser]]_vars
    /\ [](pc = "wait" => in = Dialed)
    /\ [][\A k \in Conns :
             /\ Takes(k) =>
                   /\ k = Dialed
                   /\ k = in
                   /\ chans[k].buf # <<>>
                   /\ chans'[k].buf = Tail(chans[k].buf)
             /\ (k < Dialed /\ chans[k].buf # <<>>) =>
                   chans'[k].buf = chans[k].buf]_vars

\* The session was closed with a buffer left in its handoff and connected
\* again; a reply was received on the new connection and the old buffer is
\* still in the old channel.
C32_Witness ==
    /\ Dialed = 2
    /\ connection = 2
    /\ in = 2
    /\ chans[1].closed
    /\ Len(chans[1].buf) = 1
    /\ conns[2].taken >= 1
    /\ last.conn = 2
    /\ last.got >= 1


\* C33: in every state of the parser exactly one of isReady and isMultiLine
\* is true, so a line read is handled by the READY branch or by the
\* data-block branch of the loop and never by both or by none; and a data
\* block is appended to the buffer only when the parser goes from the data
\* block back to READY.
C33_ExactlyOneStateFlag ==
    /\ [](\A k \in Conns : parsers[k].p.isReady # parsers[k].p.isMultiLine)
    /\ [][(ReadsUnit /\ HasSuffix(Head(conns[1].wire), "\r\n"))
             => LET p1 == [parsers[1].p EXCEPT
                              !.bufferRaw = Append(@, UnitLine)]
                    r == IF parsers[1].p.isReady THEN RunReady(p1, UnitLine)
                         ELSE RunMultiLine(p1, UnitLine)
                IN  /\ parsers'[1].pc = r.next
                    /\ parsers'[1].p = r.p]_vars
    /\ [][LET old == parsers[1].p.buffer.DataReplyLines
              new == parsers'[1].p.buffer.DataReplyLines
          IN  (new # old /\ new # <<>>)
                 => /\ ~parsers[1].p.isReady
                    /\ parsers[1].p.isMultiLine
                    /\ parsers'[1].p.isReady
                    /\ ~parsers'[1].p.isMultiLine
                    /\ isEndOfData(UnitLine)
                    /\ new = Append(old, parsers[1].p.dataReplyLine)]_vars

\* The parser has read the terminator of a data block: it is back in READY
\* with the block in its buffer.
C33_Witness ==
    /\ stream = <<"250-a\r\n", "250+d\r\n", "x\r\n", EndOfData, "250*x\r\n">>
    /\ conns[1].wire = <<"250*x\r\n">>
    /\ parsers[1].pc = "read"
    /\ parsers[1].p.isReady
    /\ ~parsers[1].p.isMultiLine
    /\ parsers[1].p.buffer.MidReplyLines = <<"250-a">>
    /\ parsers[1].p.buffer.DataReplyLines = <<<<"250+d", "x">>>>

====
